---- MODULE Spec2Model ----
(***************************************************************************)
(* Drive Sentinel: the scanner (GAS/drive_sentinel_file_watcher.gs), the   *)
(* classifier (GAS/ai_classifier.gs), the relay (discord-bot, Cloud Run)   *)
(* and the commit handler (GAS/drive_sentinel_submit_handler.gs) as one    *)
(* state machine over the document store and the chat channel.             *)
(*                                                                         *)
(* Text.  A string is a sequence of text fragments.  Fragments are cut so  *)
(* that every prefix test, substring test, split and replacement the code  *)
(* performs falls on a fragment boundary: "DS_PENDING_RENAME::x.pdf" is    *)
(* <<"DS_", "PENDING_RENAME::", "x", ".", "pdf">>.  Japanese literals of   *)
(* the source are written in ASCII here (the parser accepts ASCII only);   *)
(* each such literal is a single fragment named after the source literal. *)
(***************************************************************************)
EXTENDS Integers, Sequences, FiniteSets, TLC

\* ------------------------------------------------------------------ bounds
MaxRuns == 3          \* scanner runs (time-based trigger firings) in a behaviour
MaxCommands == 1      \* 'approve' slash commands in a behaviour
MaxMsgs == 2          \* messages the scanner's notifications put in the channel
MaxTokenCalls == 3    \* getGcpAuthToken invocations in a behaviour
TickSeconds == 1100   \* seconds the clock advances in one step
MaxClock == 4400      \* the clock stops here

\* -------------------------------------------------------------------- text
\* JS null / undefined, as a value no real string equals
Null == <<"<null>">>

\* a JSON value that is not a string (a number, say), as a value no real string equals
NotAString == <<"<number>">>

\* typeof s === 'string'
IsString(s) == s # Null /\ s # NotAString

\* JS truthiness of a string-or-null value
Truthy(s) == s # Null /\ s # <<>>

\* a || b
OrElse(a, b) == IF Truthy(a) THEN a ELSE b

\* s.startsWith(p)
StartsWith(s, p) == Len(s) >= Len(p) /\ SubSeq(s, 1, Len(p)) = p

\* s.includes(frag), frag a single fragment
Includes(s, frag) == \E i \in 1..Len(s) : s[i] = frag

\* the positions of fragment frag in s
Positions(s, frag) == {i \in 1..Len(s) : s[i] = frag}

Max(S) == CHOOSE m \in S : \A x \in S : x <= m

Min(S) == CHOOSE m \in S : \A x \in S : m <= x

\* s.split('.').pop(): the text after the last dot (all of s if it has none)
AfterLastDot(s) ==
  IF Positions(s, ".") = {} THEN s
  ELSE SubSeq(s, Max(Positions(s, ".")) + 1, Len(s))

DigitStr == <<"0", "1", "2", "3", "4", "5", "6", "7", "8", "9">>

\* a two-digit, zero-padded number (the MM and dd of "yyyy-MM-dd")
Pad2(n) == <<DigitStr[(n \div 10) + 1], DigitStr[(n % 10) + 1]>>

\* a four-digit year
Pad4(n) == <<DigitStr[((n \div 1000) % 10) + 1], DigitStr[((n \div 100) % 10) + 1],
             DigitStr[((n \div 10) % 10) + 1], DigitStr[(n % 10) + 1]>>

\* Utilities.formatDate(creationDate, tz, "yyyy-MM-dd"); d = [y, m, d] in the script's zone
FormatDate(d) == Pad4(d.y) \o <<"-">> \o Pad2(d.m) \o <<"-">> \o Pad2(d.d)

\* ----------------------------------------------------------- configuration
InboxId == "inbox"            \* INBOX_FOLDER_ID
DestinationRootId == "root"   \* DESTINATION_ROOT_FOLDER_ID
ElsewhereId == "elsewhere"    \* a folder that is neither
ScannerApiKey == <<"key">>    \* GAS_API_KEY script property
RelayApiKey == <<"key">>      \* GAS_API_KEY environment variable of the relay

\* ---------------------------------------------------------------- literals
DsPrefix == <<"DS_">>
PendingMarker(name) == <<"DS_", "PENDING_RENAME::">> \o name
ManualReviewMarker == <<"DS_", "PROCESSED_MANUAL_REVIEW">>

\* "手動レビュー" (manual review), the classifier's failure category
ManualReviewCategory == <<"manual-review">>
\* the parenthesised reason tags appended to it
TagConfig == <<" (config error)">>
TagDriveApi == <<" (Drive API error)">>
TagUnsupported == <<" (unsupported file)">>
TagNoDownload == <<" (not downloadable)">>
TagApi == <<" (API error)">>
TagGas == <<" (GAS error)">>

\* two of the ten categories of the fixed list, and the list itself
CatInvoice == <<"invoices-receipts">>
CatOther == <<"other">>
Categories ==
  { <<"school-education">>, CatInvoice, <<"manuals-warranties">>, <<"utilities">>,
    <<"tax-public">>, <<"finance-insurance">>, <<"medical-health">>, <<"work">>,
    <<"flyers-ads">>, CatOther }

\* a list of supported types that also has plain text
SupportedMimeTypesWithText ==
  {"application/pdf", "image/png", "image/jpeg", "image/gif", "image/bmp", "image/webp",
   "text/plain"}

\* line 48: supportedMimeTypes
SupportedMimeTypes ==
  {"application/pdf", "image/png", "image/jpeg", "image/gif", "image/bmp", "image/webp"}

\* ------------------------------------------------------------------- state
DocIds == {"f1", "f2"}

\* ids the store gives to created folders, in order of creation
NewFolderIds == <<"d1", "d2", "d3", "d4", "d5", "d6", "d7", "d8">>

VARIABLES
  docs,       \* file id -> the store's file resource (title, parents, description, ...)
  folders,    \* the folders created so far: sequence of [id, title, parent]
  msgs,       \* the messages of the chat channel, in order of posting
  runs,       \* 1..MaxRuns -> the scanner run (checkNewFilesAndNotify invocation)
  inters,     \* Slots -> the interaction the relay's POST / handler received there
  commits,    \* Slots -> the doPost invocation that interaction's commit request started
  notify,     \* the last request a client sent to POST /notify by itself, and its answer
  settings,   \* the script properties that are set (PropertiesService), by name
  auth        \* the script cache's token entry, the clock, and the getGcpAuthToken calls

vars == <<docs, folders, msgs, runs, inters, commits, notify, settings, auth>>

\* An interaction is filed under the message it came from (a message's buttons
\* are gone once an interaction on it was answered) or, for a slash command,
\* under a slot after the messages.
MsgSlots == 1..MaxMsgs
CommandSlots == (MaxMsgs + 1)..(MaxMsgs + MaxCommands)
Slots == MsgSlots \cup CommandSlots

\* a folder id by its title among the folders under parent, in order of creation
FoldersTitled(title, parent) ==
  {i \in 1..Len(folders) : folders[i].title = title /\ folders[i].parent = parent}

\* the script properties the scanner and the commit handler read
ScannerSettings == {"INBOX_FOLDER_ID", "GCP_PROJECT_ID", "GCP_LOCATION", "BOT_API_URL", "GAS_API_KEY"}
HandlerSettings == {"DESTINATION_ROOT_FOLDER_ID"}
AllSettings == ScannerSettings \cup HandlerSettings \cup {"GCP_SERVICE_ACCOUNT_KEY"}

\* ------------------------------------------------------------- classifier
\* the outcomes of the classifier's network calls: the metadata read and the
\* model call (kind "ok" with the JSON the model produced, "http_error" for a
\* non-200 answer, "throw" for a transport exception or unparsable output)
ModelOutputs ==
  { [category |-> CatInvoice, fileName |-> <<"denki-seikyusho">>],
    [category |-> CatOther, fileName |-> <<"memo-note">>],
    [category |-> <<"unlisted">>, fileName |-> <<"denki-seikyusho">>],
    [category |-> CatInvoice, fileName |-> <<>>],
    [category |-> CatInvoice, fileName |-> Null],
    [category |-> CatInvoice, fileName |-> NotAString] }

\* the outcomes of the classifier's requests: the metadata read answers meta;
\* the model call answers 200 with an output ("ok"), answers another status
\* ("http_error"), or a fetch or JSON.parse throws (timeout, transport error,
\* unparsable output: "throw")
NoOutput == [category |-> Null, fileName |-> Null]

ClassifierEnvs ==
  { [meta |-> 200, kind |-> "ok", output |-> o] : o \in ModelOutputs }
  \cup { [meta |-> 200, kind |-> k, output |-> NoOutput] : k \in {"http_error", "throw"} }
  \cup { [meta |-> 500, kind |-> "ok", output |-> NoOutput] }

\* the classifier outcomes the workflow specification draws from
WorkflowEnvs ==
  { [meta |-> 200, kind |-> "ok", output |-> o] :
      o \in { [category |-> CatInvoice, fileName |-> <<"denki-seikyusho">>],
              [category |-> <<"unlisted">>, fileName |-> <<"denki-seikyusho">>] } }

ManualResult(tag) ==
  [category |-> ManualReviewCategory \o tag, fileName |-> Null, modelCalled |-> FALSE]

\* a classifier that takes the model's category without looking it up in the list
ClassifyFileAnyCategory(fileId, env) ==
  IF env.meta # 200 THEN ManualResult(TagDriveApi)
  ELSE IF docs[fileId].mimeType \notin SupportedMimeTypes THEN ManualResult(TagUnsupported)
  ELSE IF ~docs[fileId].downloadUrl THEN ManualResult(TagNoDownload)
  ELSE IF env.kind = "http_error" THEN [ManualResult(TagApi) EXCEPT !.modelCalled = TRUE]
  ELSE IF env.kind = "throw" THEN [ManualResult(TagGas) EXCEPT !.modelCalled = TRUE]
  ELSE IF Truthy(env.output.fileName) /\ IsString(env.output.fileName)
       THEN [category |-> env.output.category, fileName |-> env.output.fileName,
             modelCalled |-> TRUE]
       ELSE [ManualResult(<<>>) EXCEPT !.modelCalled = TRUE]

\* classifyFileWithGemini_GAS(fileId, options, authToken) under outcome env
ClassifyFile(fileId, env) ==
  IF env.meta # 200 THEN ManualResult(TagDriveApi)
  ELSE IF docs[fileId].mimeType \notin SupportedMimeTypes THEN ManualResult(TagUnsupported)
  ELSE IF ~docs[fileId].downloadUrl THEN ManualResult(TagNoDownload)
  ELSE IF env.kind = "http_error" THEN [ManualResult(TagApi) EXCEPT !.modelCalled = TRUE]
  ELSE IF env.kind = "throw" THEN [ManualResult(TagGas) EXCEPT !.modelCalled = TRUE]
  ELSE IF /\ env.output.category \in Categories
          /\ Truthy(env.output.fileName)
          /\ IsString(env.output.fileName)
       THEN [category |-> env.output.category, fileName |-> env.output.fileName,
             modelCalled |-> TRUE]
       ELSE [ManualResult(<<>>) EXCEPT !.modelCalled = TRUE]

\* ---------------------------------------------------------------- scanner
\* the per-run processing limit
ProcessLimit == 10

\* a skip test that knows the pending marker only
SkipFilePendingOnly(file) ==
  file.fileSize = 0
  \/ (Truthy(file.description)
      /\ StartsWith(file.description, <<"DS_", "PENDING_RENAME::">>))

\* line 53: the files the loop skips
SkipFile(file) ==
  file.fileSize = 0 \/ (Truthy(file.description) /\ StartsWith(file.description, DsPrefix))

\* the list request: the non-trashed children of the inbox, with the listed fields
RECURSIVE SeqOfSet(_)
SeqOfSet(S) ==
  IF S = {} THEN <<>>
  ELSE LET x == CHOOSE y \in S : \A z \in S : y = z \/ ~(z \in {"f1"} /\ y # "f1")
       IN <<x>> \o SeqOfSet(S \ {x})

ListItem(f) ==
  [id |-> <<f>>, title |-> docs[f].title, description |-> docs[f].description,
   fileSize |-> docs[f].fileSize, createdDate |-> docs[f].createdDate]

\* a list request without maxResults
ListPageAll(ids) == ids

\* maxResults=20 (line 33): the page holds the first ListLimit files
ListLimit == 20
ListPage(ids) == SubSeq(ids, 1, Min({Len(ids), ListLimit}))

ListInbox ==
  LET ids == ListPage(SeqOfSet({f \in DOMAIN docs : InboxId \in docs[f].parents}))
  IN [i \in 1..Len(ids) |-> ListItem(ids[i])]

\* the index of the first file at or after from that the loop does not skip
NextEligible(items, from) ==
  LET E == {i \in from..Len(items) : ~SkipFile(items[i])}
  IN IF E = {} THEN Len(items) + 1 ELSE Min(E)

\* an extension that is cut at the first dot of the title
ExtensionAfterFirstDot(title) ==
  IF Includes(title, ".")
  THEN SubSeq(title, Min(Positions(title, ".")), Len(title))
  ELSE <<>>

\* line 103: the extension of the original title, with its dot
Extension(title) == IF Includes(title, ".") THEN <<".">> \o AfterLastDot(title) ELSE <<>>

\* line 104
FinalName(file, suggestedName) ==
  FormatDate(file.createdDate) \o <<"_">> \o suggestedName \o Extension(file.title)

\* a test that takes any result with a category as a classification
ClassifiedAnyResult(result) == Truthy(result.category)

\* line 98
Classified(result) ==
  /\ Truthy(result.category)
  /\ ~StartsWith(result.category, ManualReviewCategory)
  /\ Truthy(result.fileName)

\* processFile lines 95-120: the notification request and the marker it goes on to write
NoPlan == [req |-> <<>>, marker |-> <<>>]

ProcessPlan(file, result) ==
  IF Classified(result)
  THEN LET finalNewFileName == FinalName(file, result.fileName)
       IN [req |-> [title |-> <<"New File Ready for Approval">>,
                    description |-> <<"File classified as **">> \o result.category
                                    \o <<"**. Please click the button to approve.">>,
                    fileName |-> file.title, fileId |-> file.id,
                    category |-> result.category, newFileName |-> finalNewFileName],
           marker |-> PendingMarker(finalNewFileName)]
  ELSE [req |-> [title |-> <<"AI Classification Failed">>,
                 description |-> <<"Warning: Could not classify document: ">> \o file.title
                                 \o <<". Reason: ">>
                                 \o OrElse(result.category, <<"Unknown error">>)
                                 \o <<". ", "Manual review needed", ".">>,
                 fileName |-> file.title, fileId |-> file.id,
                 category |-> OrElse(result.category, ManualReviewCategory),
                 newFileName |-> file.title],
        marker |-> ManualReviewMarker]

\* ------------------------------------------------------- relay: POST /notify
NoMessage == [posted |-> FALSE]

\* POST /notify showing the original name in the "New File Name" field
RenderMessageOriginalName(body) ==
  [posted |-> TRUE,
   title |-> OrElse(body.title, <<"New File Ready for Approval">>),
   description |-> OrElse(body.description,
                          <<"File classified as **">> \o body.category
                          \o <<"**. Please click the button to approve.">>),
   fileName |-> OrElse(body.fileName, <<"Unknown">>),
   category |-> body.category,
   newFileName |-> OrElse(body.fileName, body.newFileName),
   footer |-> <<"Processed by DS | ", "File ID: ">> \o body.fileId,
   components |-> <<"DS_APPROVE", "DS_REJECT">>,
   content |-> <<>>]

\* the message POST /notify renders for a request body
RenderMessage(body) ==
  [posted |-> TRUE,
   title |-> OrElse(body.title, <<"New File Ready for Approval">>),
   description |-> OrElse(body.description,
                          <<"File classified as **">> \o body.category
                          \o <<"**. Please click the button to approve.">>),
   fileName |-> OrElse(body.fileName, <<"Unknown">>),
   category |-> body.category,
   newFileName |-> OrElse(body.newFileName, body.fileName),
   footer |-> <<"Processed by DS | ", "File ID: ">> \o body.fileId,
   components |-> <<"DS_APPROVE", "DS_REJECT">>,
   content |-> <<>>]

\* a /notify that looks at the fields of the body before it looks at the key
NotifyHandlerFieldsFirst(configured, apiKey, body, discordOk) ==
  IF ~Truthy(body.fileId) \/ ~Truthy(body.category)
  THEN [status |-> 400, keys |-> {"error"}, message |-> NoMessage]
  ELSE IF ~Truthy(configured) \/ apiKey # configured
  THEN [status |-> 401, keys |-> {"error"}, message |-> NoMessage]
  ELSE IF ~discordOk
  THEN [status |-> 500, keys |-> {"error", "details"}, message |-> NoMessage]
  ELSE [status |-> 200, keys |-> {"success", "messageId"}, message |-> RenderMessage(body)]

\* app.post('/notify') of a relay whose GAS_API_KEY is configured: the status it
\* answers, the keys of the JSON it answers with, and the message it posts, if any
NotifyHandlerWith(configured, apiKey, body, discordOk) ==
  IF ~Truthy(configured) \/ apiKey # configured
  THEN [status |-> 401, keys |-> {"error"}, message |-> NoMessage]
  ELSE IF ~Truthy(body.fileId) \/ ~Truthy(body.category)
  THEN [status |-> 400, keys |-> {"error"}, message |-> NoMessage]
  ELSE IF ~discordOk
  THEN [status |-> 500, keys |-> {"error", "details"}, message |-> NoMessage]
  ELSE [status |-> 200, keys |-> {"success", "messageId"}, message |-> RenderMessage(body)]

\* app.post('/notify') of the relay of this deployment
NotifyHandler(apiKey, body, discordOk) ==
  NotifyHandlerWith(RelayApiKey, apiKey, body, discordOk)

\* A request some client sends to POST /notify: the relay's configured key, the
\* X-API-Key header and the body are any of a few, the chat platform accepts
\* the message or not.
NoNotify ==
  [configured |-> Null, apiKey |-> Null, body |-> <<>>, discordOk |-> FALSE,
   status |-> 0, keys |-> {}, posted |-> 0]

NotifyKeys == {Null, <<"key">>, <<"other">>}

NotifyBodies ==
  [title : {Null}, description : {Null}, fileName : {Null, <<"scan0001", ".", "pdf">>},
   fileId : {Null, <<>>, <<"f1">>}, category : {Null, <<>>, CatInvoice},
   newFileName : {Null, <<"x", ".", "pdf">>}]

Notify(configured, apiKey, body, discordOk) ==
  /\ Len(msgs) < MaxMsgs
  /\ LET answer == NotifyHandlerWith(configured, apiKey, body, discordOk)
     IN /\ msgs' = IF answer.status = 200 THEN Append(msgs, answer.message) ELSE msgs
        /\ notify' = [configured |-> configured, apiKey |-> apiKey, body |-> body,
                      discordOk |-> discordOk, status |-> answer.status,
                      keys |-> answer.keys, posted |-> Len(msgs') - Len(msgs)]
  /\ UNCHANGED <<docs, folders, runs, inters, commits, settings, auth>>

\* A run: its position, its locals (items = fileList.items, idx = the file the
\* loop is at, fileCount, plan) and, for the properties, what it met and did:
\* settled (every file of the inbox carried a workflow marker when the run
\* listed it), env (the outcome of the classifier's requests for the file the
\* loop is at), classified, modelCalls, notified and wrote (the classifier
\* calls, model requests, notification requests and marker writes it made),
\* accepted (the marker writes the store answered with 200), eligible (the
\* files of the listed page the loop does not skip).
NoEnv == [meta |-> 0, kind |-> "none", output |-> NoOutput]

IdleRun ==
  [pc |-> "idle", items |-> <<>>, idx |-> 0, fileCount |-> 0, plan |-> NoPlan,
   env |-> NoEnv, settled |-> FALSE, classified |-> 0, modelCalls |-> 0,
   notified |-> 0, wrote |-> 0, accepted |-> 0, eligible |-> 0]

\* a description that is one of the workflow's markers (the code writes no
\* Skipped marker; one would read DS_SKIP::<reason>)
IsPending(description) == StartsWith(description, <<"DS_", "PENDING_RENAME::">>)
IsSkipped(description) == StartsWith(description, <<"DS_", "SKIP::">>)
HasMarker(description) ==
  description = ManualReviewMarker \/ IsPending(description) \/ IsSkipped(description)

\* checkNewFilesAndNotify up to the loop: the inbox setting (lines 21-25), the
\* token, the list request and the first file the loop does not skip
ScanList(r, ListOks) ==
  /\ runs[r].pc = "idle"
  /\ \A q \in 1..(r - 1) : runs[q].pc # "idle"
  /\ \E listOk \in ListOks :
       IF "INBOX_FOLDER_ID" \notin settings \/ ~listOk
       THEN runs' = [runs EXCEPT ![r].pc = "done"]
       ELSE LET items == ListInbox
                first == NextEligible(items, 1)
            IN runs' = [runs EXCEPT
                 ![r].pc = IF first > Len(items) THEN "done" ELSE "process",
                 ![r].items = IF first > Len(items) THEN <<>> ELSE items,
                 ![r].idx = IF first > Len(items) THEN 0 ELSE first,
                 ![r].eligible = Cardinality({i \in 1..Len(items) : ~SkipFile(items[i])}),
                 ![r].settled = \A f \in DOMAIN docs :
                                  InboxId \in docs[f].parents => HasMarker(docs[f].description)]
  /\ UNCHANGED <<docs, folders, msgs, inters, commits, notify, settings, auth>>

\* processFile up to the notification: the project settings (lines 83-89; without
\* them processFile returns), classify, then sendDiscordNotification, which
\* returns without a request when BOT_API_URL or GAS_API_KEY is not set
ScanProcess(r, Envs, DiscordOks) ==
  /\ runs[r].pc = "process"
  /\ Len(msgs) < MaxMsgs
  /\ \E env \in Envs, discordOk \in DiscordOks :
       LET file == runs[r].items[runs[r].idx]
           result == ClassifyFile(file.id[1], env)
           plan == ProcessPlan(file, result)
           answer == NotifyHandler(ScannerApiKey, plan.req, discordOk)
       IN IF ~({"GCP_PROJECT_ID", "GCP_LOCATION"} \subseteq settings)
          THEN /\ runs' = [runs EXCEPT ![r].pc = "mark", ![r].plan = NoPlan, ![r].env = NoEnv]
               /\ msgs' = msgs
          ELSE IF ~({"BOT_API_URL", "GAS_API_KEY"} \subseteq settings)
          THEN /\ runs' = [runs EXCEPT
                    ![r].pc = "mark", ![r].plan = plan, ![r].env = env,
                    ![r].classified = @ + 1,
                    ![r].modelCalls = @ + (IF result.modelCalled THEN 1 ELSE 0)]
               /\ msgs' = msgs
          ELSE /\ runs' = [runs EXCEPT
                    ![r].pc = "mark", ![r].plan = plan, ![r].env = env,
                    ![r].classified = @ + 1,
                    ![r].modelCalls = @ + (IF result.modelCalled THEN 1 ELSE 0),
                    ![r].notified = @ + 1]
               /\ msgs' = IF answer.status = 200 THEN Append(msgs, answer.message) ELSE msgs
  /\ UNCHANGED <<docs, folders, inters, commits, notify, settings, auth>>

\* updateFileDescription(fileId, description, authToken): the patch it sends, if accepted
UpdateFileDescription(fileId, description, ok) ==
  IF ok THEN [docs EXCEPT ![fileId].description = description] ELSE docs

\* a loop that gives up on the page when a file's marker write fails
LoopStopsAfterFailure(count, next, len, failed) ==
  failed \/ count >= ProcessLimit \/ next > len

\* lines 51-65: whether the loop ends after a file: the limit is reached or no
\* listed file is left; a failure met while processing the file plays no part
LoopStops(count, next, len, failed) == count >= ProcessLimit \/ next > len

\* processFile's marker write (none if processFile returned at line 88), then
\* the loop's count, limit and next file
ScanMark(r, PatchOks) ==
  /\ runs[r].pc = "mark"
  /\ \E ok \in PatchOks :
       LET file == runs[r].items[runs[r].idx]
           count == runs[r].fileCount + 1
           next == NextEligible(runs[r].items, runs[r].idx + 1)
           stop == LoopStops(count, next, Len(runs[r].items), ~ok)
           returned == runs[r].plan = NoPlan
       IN /\ docs' = IF returned THEN docs
                     ELSE UpdateFileDescription(file.id[1], runs[r].plan.marker, ok)
          /\ runs' = [runs EXCEPT
               ![r].pc = IF stop THEN "done" ELSE "process",
               ![r].items = IF stop THEN <<>> ELSE @,
               ![r].idx = IF stop THEN 0 ELSE next,
               ![r].plan = NoPlan,
               ![r].env = NoEnv,
               ![r].fileCount = count,
               ![r].wrote = @ + (IF returned THEN 0 ELSE 1),
               ![r].accepted = @ + (IF ~returned /\ ok THEN 1 ELSE 0)]
  /\ UNCHANGED <<folders, msgs, inters, commits, notify, settings, auth>>

\* ------------------------------------------------ relay: POST / (interactions)
\* fragments made only of the characters [A-Za-z0-9_-]
WordFragments == DocIds \cup {"f9"}

\* footerText.match(/File ID: ([\w-]+)/): the captured group, or Null when there is no match
MatchFileId(footer) ==
  LET P == {i \in 1..(Len(footer) - 1) :
              footer[i] = "File ID: " /\ footer[i + 1] \in WordFragments}
  IN IF P = {} THEN Null
     ELSE LET p == Min(P)
              E == {j \in (p + 1)..Len(footer) :
                      \A k \in (p + 1)..j : footer[k] \in WordFragments}
          IN SubSeq(footer, p + 1, Max(E))

NoResponse == [type |-> 0, components |-> "kept"]
NoOptions == [fileid |-> Null, folder |-> Null]
\* A request to the commit handler: the three fields of its JSON body, and the
\* shared secret it carries in a header or a field (Null: none).  The relay's
\* axios.post(GAS_WEBAPP_URL, {...}) sets no header and no such field.
NoRequest == [fileId |-> Null, folderName |-> Null, newFileName |-> Null, secret |-> Null]

\* a DS_APPROVE branch whose response leaves the buttons on the message
ApproveHandlerKeepsButtons(message) ==
  LET fileId == MatchFileId(message.footer)
  IN IF Truthy(fileId)
     THEN [response |-> [type |-> 7, components |-> "kept"],
           request |-> [fileId |-> fileId, folderName |-> message.category,
                        newFileName |-> message.newFileName, secret |-> Null],
           pc |-> "post"]
     ELSE [response |-> [type |-> 4, components |-> "kept"], request |-> NoRequest,
           pc |-> "done"]

\* the DS_APPROVE branch up to res.send: the response and the commit request it prepares
ApproveHandler(message) ==
  LET fileId == MatchFileId(message.footer)
  IN IF Truthy(fileId)
     THEN [response |-> [type |-> 7, components |-> "removed"],
           request |-> [fileId |-> fileId, folderName |-> message.category,
                        newFileName |-> message.newFileName, secret |-> Null],
           pc |-> "post"]
     ELSE [response |-> [type |-> 4, components |-> "kept"], request |-> NoRequest,
           pc |-> "done"]

\* a DS_REJECT branch that goes on to send the commit request, as DS_APPROVE does
RejectHandlerCommits(message) ==
  LET fileId == MatchFileId(message.footer)
  IN IF Truthy(fileId)
     THEN [response |-> [type |-> 7, components |-> "removed"],
           request |-> [fileId |-> fileId, folderName |-> message.category,
                        newFileName |-> message.newFileName, secret |-> Null],
           pc |-> "post"]
     ELSE [response |-> NoResponse, request |-> NoRequest, pc |-> "done"]

\* a DS_REJECT branch whose response leaves the buttons on the message
RejectHandlerKeepsButtons(message) ==
  IF Truthy(MatchFileId(message.footer))
  THEN [response |-> [type |-> 7, components |-> "kept"], request |-> NoRequest,
        pc |-> "done"]
  ELSE [response |-> NoResponse, request |-> NoRequest, pc |-> "done"]

\* the DS_REJECT branch: the response, and nothing else
RejectHandler(message) ==
  IF Truthy(MatchFileId(message.footer))
  THEN [response |-> [type |-> 7, components |-> "removed"], request |-> NoRequest,
        pc |-> "done"]
  ELSE [response |-> NoResponse, request |-> NoRequest, pc |-> "done"]

\* the chat platform applying an interaction response to the message it came from
ApplyResponse(message, kind, response) ==
  IF response.type = 7
  THEN [message EXCEPT !.components = IF response.components = "removed" THEN <<>> ELSE @,
                       !.content = IF kind = "DS_APPROVE" THEN "in-progress" ELSE "rejected"]
  ELSE message

\* the error detail a failure message carries: none, the fixed text "No response
\* data", or text taken from the commit response (its length in characters, and
\* whether the 'see logs' suffix follows it)
NoDetail == [from |-> "none", length |-> 0, suffix |-> FALSE]

\* a click on a button of message m: the MESSAGE_COMPONENT branch of POST /
RelayComponent(m, customId) ==
  /\ m \in 1..Len(msgs)
  /\ inters[m].kind = "none"
  /\ \E k \in 1..Len(msgs[m].components) : msgs[m].components[k] = customId
  /\ LET h == IF customId = "DS_APPROVE" THEN ApproveHandler(msgs[m])
              ELSE RejectHandler(msgs[m])
     IN /\ inters' = [inters EXCEPT ![m] =
             [kind |-> customId, msg |-> m, options |-> NoOptions,
              response |-> h.response, request |-> h.request, pc |-> h.pc, posts |-> 0,
              commitOk |-> FALSE, edit |-> "none", editsAccepted |-> TRUE,
              detail |-> NoDetail]]
        /\ msgs' = [msgs EXCEPT ![m] = ApplyResponse(@, customId, h.response)]
  /\ UNCHANGED <<docs, folders, runs, commits, notify, settings, auth>>

\* the texts a user can give the 'approve' command as its fileid option
CommandFileIds == {<<" ", "f1">>}

\* an 'approve' slash command: the APPLICATION_COMMAND branch up to res.send
RelayCommand(p, fileId, folderName) ==
  /\ p \in CommandSlots
  /\ inters[p].kind = "none"
  /\ \A q \in CommandSlots : q < p => inters[q].kind # "none"
  /\ inters' = [inters EXCEPT ![p] =
       [kind |-> "approve", msg |-> 0,
        options |-> [fileid |-> fileId, folder |-> folderName],
        response |-> [type |-> 5, components |-> "kept"],
        request |-> [fileId |-> fileId, folderName |-> folderName, newFileName |-> Null,
                    secret |-> Null],
        pc |-> "post", posts |-> 0, commitOk |-> FALSE, edit |-> "none",
        editsAccepted |-> TRUE, detail |-> NoDetail]]
  /\ UNCHANGED <<docs, folders, msgs, runs, commits, notify, settings, auth>>

\* ----------------------------------------------------------- commit handler
NoInteraction ==
  [kind |-> "none", msg |-> 0, options |-> NoOptions, response |-> NoResponse,
   request |-> NoRequest, pc |-> "none", posts |-> 0, commitOk |-> FALSE,
   edit |-> "none", editsAccepted |-> TRUE, detail |-> NoDetail]

\* A doPost invocation: its request, its position, its locals (fileId,
\* parents = originalParentIds, target = targetFolderId) and, for the properties,
\* what it did: patched and moved (the two requests answered 200), created (it
\* created the target folder), returned (the result it went on to return),
\* before and after (the file as the metadata read found it and as the
\* invocation left it), cleared (the description its patch replaced), overlapped (another invocation for the same file was
\* in progress at some point of this one), searchName and createName (the folder
\* name the search query and the create request carried).
NoSnapshot == [title |-> <<>>, parents |-> {}, description |-> <<>>]

NoCommit ==
  [req |-> NoRequest, pc |-> "none", fileId |-> "none", parents |-> {},
   target |-> "none", patched |-> FALSE, moved |-> FALSE, created |-> FALSE,
   returned |-> "none", before |-> NoSnapshot, after |-> NoSnapshot,
   cleared |-> <<>>, overlapped |-> FALSE, calls |-> {}, missing |-> FALSE,
   removed |-> {}, searchName |-> Null, createName |-> Null]

NewCommit(request, overlapped) ==
  [NoCommit EXCEPT !.req = request, !.pc = "start", !.overlapped = overlapped]

Snapshot(d) == [title |-> d.title, parents |-> d.parents, description |-> d.description]

\* s.trim(), on a string whose blanks are " " fragments
RECURSIVE TrimLeft(_)
TrimLeft(s) == IF s # <<>> /\ Head(s) = " " THEN TrimLeft(Tail(s)) ELSE s

RECURSIVE TrimRight(_)
TrimRight(s) ==
  IF s # <<>> /\ s[Len(s)] = " " THEN TrimRight(SubSeq(s, 1, Len(s) - 1)) ELSE s

Trim(s) == TrimRight(TrimLeft(s))

\* the file a file id names in the store, "none" if there is none
FileOf(id) == IF Len(id) = 1 /\ id[1] \in DOMAIN docs THEN id[1] ELSE "none"

\* the file a commit request names (after doPost's trim), "none" if it names none
RequestFile(req) == IF Truthy(req.fileId) THEN FileOf(Trim(req.fileId)) ELSE "none"

\* axios.post(GAS_WEBAPP_URL, ...) of interaction i: the request leaves, or the call throws
RelayPostCommit(i) ==
  /\ i \in Slots
  /\ inters[i].pc = "post"
  /\ \E sent \in BOOLEAN :
       IF sent
       THEN LET clash == {q \in Slots : /\ commits[q].pc \notin {"none", "done"}
                                        /\ RequestFile(commits[q].req)
                                             = RequestFile(inters[i].request)}
            IN commits' = [q \in Slots |->
                 IF q = i THEN NewCommit(inters[i].request, clash # {})
                 ELSE IF q \in clash THEN [commits[q] EXCEPT !.overlapped = TRUE]
                 ELSE commits[q]]
            /\ inters' = [inters EXCEPT ![i].pc = "wait", ![i].posts = @ + 1]
       ELSE /\ commits' = commits
            /\ inters' = [inters EXCEPT ![i].pc = "catch", ![i].posts = @ + 1]
  /\ UNCHANGED <<docs, folders, msgs, runs, notify, settings, auth>>

\* A request some client sends to the web app's URL by itself: the deployed
\* doPost serves every POST that reaches the URL.
PostRequests ==
  [fileId : {Null, <<>>, <<" ">>, <<"f1">>}, folderName : {Null, <<>>, CatInvoice},
   newFileName : {Null, <<"x", ".", "pdf">>}, secret : {Null, <<"key">>}]

Post(p, request) ==
  /\ p \in Slots
  /\ inters[p].kind = "none"
  /\ commits[p].pc = "none"
  /\ \A q \in 1..(p - 1) : commits[q].pc # "none"
  /\ LET clash == {q \in Slots : /\ commits[q].pc \notin {"none", "done"}
                                 /\ RequestFile(commits[q].req) = RequestFile(request)}
     IN commits' = [q \in Slots |->
          IF q = p THEN NewCommit(request, clash # {})
          ELSE IF q \in clash THEN [commits[q] EXCEPT !.overlapped = TRUE]
          ELSE commits[q]]
  /\ UNCHANGED <<docs, folders, msgs, runs, inters, notify, settings, auth>>

\* a sanitizer that removes both quote characters
CleanFolderNameNoQuotes(folderName) == SelectSeq(folderName, LAMBDA x : x \notin {"\"", "'"})

\* folderName.replace(/"/g, '')
CleanFolderName(folderName) == SelectSeq(folderName, LAMBDA x : x # "\"")

\* doPost steps 1-3: token, configuration, parsing, validation, the metadata read
DoPostRead(j) ==
  /\ j \in Slots
  /\ commits[j].pc = "start"
  /\ \E metaOk \in BOOLEAN :
       LET req == commits[j].req
           fileId == IF Truthy(req.fileId) THEN Trim(req.fileId) ELSE Null
           f == RequestFile(req)
       IN commits' = [commits EXCEPT ![j] =
            IF "DESTINATION_ROOT_FOLDER_ID" \notin settings
            THEN [@ EXCEPT !.pc = "done", !.returned = "error-500"]
            ELSE IF ~Truthy(fileId) \/ ~Truthy(req.folderName) \/ ~Truthy(req.newFileName)
            THEN [@ EXCEPT !.pc = "done", !.returned = "error-400"]
            ELSE IF f = "none" \/ ~metaOk
            THEN [@ EXCEPT !.pc = "done", !.returned = "error-404", !.calls = @ \cup {"read"}]
            ELSE [@ EXCEPT !.pc = "search", !.fileId = f, !.parents = docs[f].parents,
                           !.calls = @ \cup {"read"},
                           !.missing = FoldersTitled(CleanFolderName(req.folderName),
                                                     DestinationRootId) = {},
                           !.before = Snapshot(docs[f]), !.after = Snapshot(docs[f])]]
  /\ UNCHANGED <<docs, folders, msgs, runs, inters, notify, settings, auth>>

\* getOrCreateFolder step 1: the search under the destination root
DoPostSearch(j, SearchOks) ==
  /\ j \in Slots
  /\ commits[j].pc = "search"
  /\ \E searchOk \in SearchOks :
       LET clean == CleanFolderName(commits[j].req.folderName)
           found == FoldersTitled(clean, DestinationRootId)
       IN IF ~searchOk \/ Includes(clean, "'")
          THEN commits' = [commits EXCEPT ![j].pc = "done", ![j].returned = "exception",
                                          ![j].calls = @ \cup {"search"},
                                          ![j].searchName = clean,
                                          ![j].after = Snapshot(docs[commits[j].fileId])]
          ELSE IF found # {}
          THEN \E k \in found :
                 commits' = [commits EXCEPT ![j].pc = "patch", ![j].target = folders[k].id,
                                            ![j].searchName = clean,
                                            ![j].calls = @ \cup {"search"}]
          ELSE commits' = [commits EXCEPT ![j].pc = "create",
                                          ![j].searchName = clean,
                                          ![j].calls = @ \cup {"search"}]
  /\ UNCHANGED <<docs, folders, msgs, runs, inters, notify, settings, auth>>

\* a getOrCreateFolder that creates the folder and returns no id
CreateResultForgetsId(createOk, id) == "none"

\* what getOrCreateFolder returns after its create request answered (lines
\* 142-150): the new folder's id, or null ("none")
CreateResult(createOk, id) == IF createOk THEN id ELSE "none"

\* getOrCreateFolder step 2: the create request
DoPostCreate(j) ==
  /\ j \in Slots
  /\ commits[j].pc = "create"
  /\ Len(folders) < Len(NewFolderIds)
  /\ \E createOk \in BOOLEAN :
       LET id == NewFolderIds[Len(folders) + 1]
           returnedId == CreateResult(createOk, id)
           clean == CleanFolderName(commits[j].req.folderName)
       IN /\ folders' = IF createOk
                        THEN Append(folders,
                               [id |-> id, title |-> clean, parent |-> DestinationRootId])
                        ELSE folders
          /\ commits' = [commits EXCEPT ![j] =
               IF returnedId # "none"
               THEN [@ EXCEPT !.pc = "patch", !.target = returnedId, !.created = createOk,
                              !.createName = clean,
                              !.calls = @ \cup {"create"}]
               ELSE [@ EXCEPT !.pc = "done", !.returned = "error-500", !.created = createOk,
                              !.createName = clean,
                              !.calls = @ \cup {"create"},
                              !.after = Snapshot(docs[commits[j].fileId])]]
  /\ UNCHANGED <<docs, msgs, runs, inters, notify, settings, auth>>

\* a doPost that gives up when the rename is refused
AfterPatchAborts(patchOk) == IF patchOk THEN "move" ELSE "done"

\* where doPost goes after the rename request answered: on to the move, whatever
\* the answer (lines 60-64 only log a non-200 answer)
AfterPatch(patchOk) == "move"

\* doPost step 5: the patch that renames the file and clears its description
DoPostPatch(j) ==
  /\ j \in Slots
  /\ commits[j].pc = "patch"
  /\ \E patchOk \in BOOLEAN :
       /\ docs' = IF patchOk
                  THEN [docs EXCEPT ![commits[j].fileId].title = commits[j].req.newFileName,
                                    ![commits[j].fileId].description = <<>>]
                  ELSE docs
       /\ commits' = [commits EXCEPT
            ![j].pc = AfterPatch(patchOk), ![j].patched = patchOk,
            ![j].returned = IF AfterPatch(patchOk) = "done" THEN "error-500" ELSE @,
            ![j].calls = @ \cup {"patch"},
            ![j].cleared = IF patchOk THEN docs[commits[j].fileId].description ELSE <<>>]
  /\ UNCHANGED <<folders, msgs, runs, inters, notify, settings, auth>>

\* a move that adds the target folder and removes no parent
MoveOutcomesKeepsParents(parents, add, remove) == {parents \cup {add}}

\* the parent sets the store may leave after a patch with addParents and removeParents
MoveOutcomes(parents, add, remove) ==
  {(parents \ remove) \cup {add}}
  \cup (IF add \in remove THEN {(parents \cup {add}) \ remove} ELSE {})

\* a doPost that reports success whatever the move request answered
MoveResultAlwaysSuccess(moveOk) == "success"

\* the result doPost builds after the move request answered (lines 75-81)
MoveResult(moveOk) == IF moveOk THEN "success" ELSE "error-500"

\* a move request that names no parent to remove
RemoveParentsNone(commit, current) == {}

\* a move that removes the parents the file has when the move is sent
RemoveParentsCurrent(commit, current) == current

\* removeParents of the move request (line 67): originalParentIds, the parents
\* of the metadata read at line 30; current are the file's parents in the store
RemoveParents(commit, current) == commit.parents

\* doPost step 6: the move, and the result doPost goes on to return
DoPostMove(j) ==
  /\ j \in Slots
  /\ commits[j].pc = "move"
  /\ \E moveOk \in BOOLEAN :
       IF moveOk
       THEN \E ps \in MoveOutcomes(docs[commits[j].fileId].parents, commits[j].target,
                                   RemoveParents(commits[j], docs[commits[j].fileId].parents)) :
              /\ docs' = [docs EXCEPT ![commits[j].fileId].parents = ps]
              /\ commits' = [commits EXCEPT ![j].pc = "done", ![j].moved = TRUE,
                                            ![j].returned = MoveResult(TRUE),
                                            ![j].calls = @ \cup {"move"},
                                            ![j].removed = RemoveParents(commits[j],
                                                             docs[commits[j].fileId].parents),
                                            ![j].after = Snapshot(docs'[commits[j].fileId])]
       ELSE /\ docs' = docs
            /\ commits' = [commits EXCEPT ![j].pc = "done", ![j].returned = MoveResult(FALSE),
                                          ![j].calls = @ \cup {"move"},
                                          ![j].removed = RemoveParents(commits[j],
                                                           docs[commits[j].fileId].parents),
                                          ![j].after = Snapshot(docs[commits[j].fileId])]
  /\ UNCHANGED <<folders, msgs, runs, inters, notify, settings, auth>>

\* createJsonResponse(data, statusCode): line 91 reads ContentService.MmeType.JSON;
\* ContentService has no MmeType, so the property read throws a TypeError
CreateJsonResponseThrows == TRUE

\* the body doPost's JSON text would carry for a result
JsonBody(returned) ==
  IF returned = "success"
  THEN <<"{\"status\":\"", "success", "\",\"message\":\"",
         "File processed ", "successfully", ".\"}">>
  ELSE IF returned = "error-400"
  THEN <<"{\"status\":\"", "error", "\",\"message\":\"", "Invalid request",
         ": fileId, folderName, and newFileName are required.", "\"}">>
  ELSE <<"{\"status\":\"", "error", "\",\"message\":\"", "...", "\"}">>

\* what the caller of the web app gets: doPost's output, or the platform's error
\* page when the exception leaves doPost (the catch block calls createJsonResponse too)
ErrorPage == <<"TypeError: Cannot read properties of undefined (reading 'JSON')">>

\* line 264: the longest response text the failure message shows in full
PreviewLimit == 1500

\* the lengths, in characters, of the body of a response: at the limit and past it
BodyLengths == {PreviewLimit, PreviewLimit + 1}

\* the length of what the web app answers: the error page is an HTML document,
\* taken as longer than the preview limit
PageLength == PreviewLimit + 1

WebAppResponses(returned) ==
  IF returned = "exception" \/ CreateJsonResponseThrows
  THEN {[status |-> st, kind |-> "text", body |-> ErrorPage, length |-> PageLength] :
          st \in {200, 500}}
  ELSE {[status |-> 200, kind |-> "json", body |-> JsonBody(returned),
         length |-> PageLength]}

\* gasResponse.data && gasResponse.data.includes("Success"): "true", "false", or
\* "throw" when data is an object parsed from JSON (it has no includes method)
IncludesSuccess(response) ==
  IF ~Truthy(response.body) THEN "false"
  ELSE IF response.kind = "json" THEN "throw"
  ELSE IF Includes(response.body, "Success") THEN "true" ELSE "false"

\* a preview that cuts every body at the limit
ErrorPreviewCutsAll(response) ==
  IF ~Truthy(response.body) THEN [from |-> "fixed", length |-> 0, suffix |-> FALSE]
  ELSE IF response.length > PreviewLimit
  THEN [from |-> "response", length |-> PreviewLimit, suffix |-> TRUE]
  ELSE [from |-> "response", length |-> response.length, suffix |-> FALSE]

\* part_007 lines 248-269: errorDetails = gasResponse.data || "No response data";
\* a string longer than the limit is cut to the limit and the suffix added; a
\* body that is not a string (an array: the only non-string with an includes
\* method) is shown as JSON.stringify(errorDetails, null, 2), which is no
\* shorter than the body text it was parsed from, when that has no white space
ErrorPreview(response) ==
  IF ~Truthy(response.body) THEN [from |-> "fixed", length |-> 0, suffix |-> FALSE]
  ELSE IF response.kind = "text"
  THEN IF response.length > PreviewLimit
       THEN [from |-> "response", length |-> PreviewLimit, suffix |-> TRUE]
       ELSE [from |-> "response", length |-> response.length, suffix |-> FALSE]
  ELSE [from |-> "response", length |-> response.length, suffix |-> FALSE]

\* the try block after axios.post returned or threw, and the catch block: the
\* state the original message is edited to: "success", "failure" (the error text of
\* the try block or the fatal-error text of the catch block), or "none" when no
\* edit is made.  In the catch block of the command branch the argument
\* interaction.message.embeds is read first; a command interaction carries no
\* message, so the read throws and the patch is never sent.
EditAfterCommit(kind, posted, response, editOk, catchEditOk) ==
  LET thrown == ~posted \/ response.status >= 300 \/ IncludesSuccess(response) = "throw"
      first == IF IncludesSuccess(response) = "true" THEN "success" ELSE "failure"
  IN IF ~thrown /\ editOk THEN first
     ELSE IF kind = "approve" THEN "none"
     ELSE IF catchEditOk THEN "failure"
     ELSE "none"

\* the relay after its commit request ended, answered by one of Responses: the
\* edit of the original message
RelayFinishFrom(i, Responses) ==
  /\ i \in Slots
  /\ \/ inters[i].pc = "catch"
     \/ inters[i].pc = "wait" /\ commits[i].pc = "done"
  /\ \E editOk \in BOOLEAN :
     \E catchEditOk \in {editOk} :
     \E response \in IF inters[i].pc = "catch"
                     THEN {[status |-> 0, kind |-> "text", body |-> <<>>, length |-> 0]}
                     ELSE Responses :
       LET edit == EditAfterCommit(inters[i].kind, inters[i].pc = "wait", response,
                                   editOk, catchEditOk)
           ok == /\ inters[i].pc = "wait"
                 /\ response.status < 300
                 /\ IncludesSuccess(response) = "true"
       IN /\ inters' = [inters EXCEPT ![i].pc = "done", ![i].edit = edit,
                                       ![i].commitOk = ok,
                                       ![i].editsAccepted = editOk,
                                       ![i].detail =
                                          IF /\ inters[i].kind = "DS_APPROVE"
                                             /\ inters[i].pc = "wait"
                                             /\ response.status < 300
                                             /\ IncludesSuccess(response) = "false"
                                          THEN ErrorPreview(response)
                                          ELSE NoDetail]
          /\ msgs' = IF inters[i].msg # 0 /\ edit # "none"
                     THEN [msgs EXCEPT ![inters[i].msg].content = edit]
                     ELSE msgs
  /\ UNCHANGED <<docs, folders, runs, commits, notify, settings, auth>>

\* the relay after its commit request ended, answered by the commit handler
RelayFinish(i) == RelayFinishFrom(i, WebAppResponses(commits[i].returned))

\* ------------------------------------------------------------------ token
\* getGcpAuthToken (part_002).  Tokens are numbered in the order the token
\* endpoint issues them; 0 is no token.  The script cache holds one entry under
\* the key 'gcp_access_token', written with a lifetime of CacheSeconds.
CacheSeconds == 3300

\* The service accounts whose key GCP_SERVICE_ACCOUNT_KEY may hold (client_email).
Identities == {"sa-one", "sa-two"}

\* A call: its position, the token it returned, the client_email of the key
\* configured when it was made (identity), and what it did.
NoTokenCall ==
  [pc |-> "idle", token |-> 0, start |-> 0, exchanged |-> 0, hit |-> FALSE,
   stale |-> FALSE, identity |-> "none"]

\* identity: the client_email of the key now configured; issuedFor: for each
\* token, in the order of issue, the identity whose assertion it answered
NoAuth ==
  [clock |-> 0, cache |-> 0, cachedAt |-> 0, exchanges |-> 0, issued |-> 0,
   rejected |-> {}, identity |-> "sa-one", issuedFor |-> <<>>,
   calls |-> [c \in 1..MaxTokenCalls |-> NoTokenCall]]

\* cache.get('gcp_access_token'): the entry, or 0 (null) when none is held or it expired
CacheGet == IF auth.cache # 0 /\ auth.clock - auth.cachedAt < CacheSeconds THEN auth.cache ELSE 0

\* a lookup under a key made of the identity: a hit only for a token of that identity
CacheKeyGetByIdentity(identity) ==
  IF CacheGet # 0 /\ auth.issuedFor[CacheGet] = identity THEN CacheGet ELSE 0

\* line 27: the lookup is under the fixed key 'gcp_access_token', whatever the
\* identity of the configured service-account key
CacheKeyGet(identity) == CacheGet

\* lines 26-36: the cache lookup, then the service-account key
TokenStart(c) ==
  /\ c \in 1..MaxTokenCalls
  /\ auth.calls[c].pc = "idle"
  /\ \A q \in 1..(c - 1) : auth.calls[q].pc # "idle"
  /\ auth' = [auth EXCEPT !.calls[c] =
       IF CacheKeyGet(auth.identity) # 0
       THEN [@ EXCEPT !.pc = "done", !.token = CacheKeyGet(auth.identity),
                      !.start = auth.clock, !.hit = TRUE,
                      !.stale = CacheGet \in auth.rejected, !.identity = auth.identity]
       ELSE IF "GCP_SERVICE_ACCOUNT_KEY" \notin settings
       THEN [@ EXCEPT !.pc = "failed", !.start = auth.clock, !.identity = auth.identity]
       ELSE [@ EXCEPT !.pc = "exchange", !.start = auth.clock, !.identity = auth.identity]]
  /\ UNCHANGED <<docs, folders, msgs, runs, inters, commits, notify, settings>>

\* a getGcpAuthToken that caches whatever the response carried
CacheAfterExchangeAlways(outcome, token, cache) == IF outcome = "ok" THEN token ELSE -1

\* lines 83-92: the cache entry after the exchange answered; the put is reached
\* only with an access token
CacheAfterExchange(outcome, token, cache) == IF outcome = "ok" THEN token ELSE cache

\* the answers of the token endpoint: a token, a non-2xx status (UrlFetchApp.fetch
\* throws), or a body without access_token
ExchangeOutcomes == {"ok", "non2xx", "notoken"}

\* lines 37-94: the signed assertion, the POST to the token endpoint, the put
TokenExchange(c) ==
  /\ c \in 1..MaxTokenCalls
  /\ auth.calls[c].pc = "exchange"
  /\ \E outcome \in ExchangeOutcomes :
       LET token == auth.issued + 1
           cache == CacheAfterExchange(outcome, token, auth.cache)
       IN auth' = [auth EXCEPT
            !.exchanges = @ + 1,
            !.issued = IF outcome = "ok" THEN token ELSE @,
            !.issuedFor = IF outcome = "ok" THEN Append(@, auth.calls[c].identity) ELSE @,
            !.cache = cache,
            !.cachedAt = IF cache # auth.cache THEN auth.clock ELSE @,
            !.calls[c] = [@ EXCEPT !.pc = IF outcome = "ok" THEN "done" ELSE "failed",
                                   !.token = IF outcome = "ok" THEN token ELSE 0,
                                   !.exchanged = @ + 1]]
  /\ UNCHANGED <<docs, folders, msgs, runs, inters, commits, notify, settings>>

\* time passes
TokenTick ==
  /\ auth.clock + TickSeconds <= MaxClock
  /\ auth' = [auth EXCEPT !.clock = @ + TickSeconds]
  /\ UNCHANGED <<docs, folders, msgs, runs, inters, commits, notify, settings>>

\* the operator stores the key of another service account in GCP_SERVICE_ACCOUNT_KEY
TokenKeyChanged ==
  /\ "GCP_SERVICE_ACCOUNT_KEY" \in settings
  /\ \E identity \in Identities \ {auth.identity} : auth' = [auth EXCEPT !.identity = identity]
  /\ UNCHANGED <<docs, folders, msgs, runs, inters, commits, notify, settings>>

\* The caller of call c sends a request with its token and the API answers 401.
\* The callers only log the answer and return (watcher lines 42-45, handler
\* lines 102-105 and 147-150); no code removes the cache entry.
TokenRejected(c) ==
  /\ c \in 1..MaxTokenCalls
  /\ auth.calls[c].pc = "done"
  /\ auth.calls[c].token \notin auth.rejected
  /\ auth' = [auth EXCEPT !.rejected = @ \cup {auth.calls[c].token}]
  /\ UNCHANGED <<docs, folders, msgs, runs, inters, commits, notify, settings>>

\* --------------------------------------------------------- specification
\* The store at the start: f1 is a new PDF in the inbox; f2 is a new text file,
\* in the inbox or in a folder the workflow does not look at.
InitDocs(f2parent) ==
  [f \in DocIds |->
     IF f = "f1"
     THEN [title |-> <<"scan0001", ".", "pdf">>, parents |-> {InboxId}, description |-> <<>>,
           mimeType |-> "application/pdf", downloadUrl |-> TRUE, fileSize |-> 1,
           createdDate |-> [y |-> 2024, m |-> 3, d |-> 1]]
     ELSE [title |-> <<"notes">>, parents |-> {f2parent}, description |-> <<>>,
           mimeType |-> "text/plain", downloadUrl |-> TRUE, fileSize |-> 1,
           createdDate |-> [y |-> 2023, m |-> 12, d |-> 25]]]

Init ==
  /\ \E f2parent \in {InboxId, ElsewhereId} : docs = InitDocs(f2parent)
  /\ folders = <<>>
  /\ msgs = <<>>
  /\ runs = [r \in 1..MaxRuns |-> IdleRun]
  /\ inters = [p \in Slots |-> NoInteraction]
  /\ commits = [p \in Slots |-> NoCommit]
  /\ notify = NoNotify
  /\ settings = AllSettings
  /\ auth = NoAuth

\* the steps of the relay's interaction handler and of the commit handler
Handlers ==
  \/ \E m \in MsgSlots, c \in {"DS_APPROVE", "DS_REJECT"} : RelayComponent(m, c)
  \/ \E i \in Slots : RelayPostCommit(i)
  \/ \E i \in Slots : RelayFinish(i)
  \/ \E j \in Slots : DoPostRead(j)
  \/ \E j \in Slots : DoPostSearch(j, {TRUE})
  \/ \E j \in Slots : DoPostCreate(j)
  \/ \E j \in Slots : DoPostPatch(j)
  \/ \E j \in Slots : DoPostMove(j)

\* The workflow: the trigger fires when the previous run has ended; the list
\* request and the notification succeed, the marker write may fail; buttons are
\* clicked; every step of a commit may fail.
Next ==
  \/ \E r \in 1..MaxRuns :
       (\A q \in 1..(r - 1) : runs[q].pc = "done") /\ ScanList(r, {TRUE})
  \/ \E r \in 1..MaxRuns : ScanProcess(r, WorkflowEnvs, {TRUE})
  \/ \E r \in 1..MaxRuns : ScanMark(r, BOOLEAN)
  \/ Handlers

Spec == Init /\ [][Next]_vars

\* The workflow with the 'approve' slash command: one scanner run, then buttons
\* and commands.
NextCommand ==
  \/ ScanList(1, {TRUE})
  \/ ScanProcess(1, WorkflowEnvs, {TRUE})
  \/ ScanMark(1, BOOLEAN)
  \/ \E p \in CommandSlots, id \in CommandFileIds, c \in {CatInvoice} : RelayCommand(p, id, c)
  \/ Handlers

SpecCommand == Init /\ [][NextCommand]_vars

\* The scanner alone, over files of several types: f1 is of any of these mime
\* types, with or without a download URL; the trigger fires when the previous run
\* has ended; the list request, the classifier's requests, the notification
\* and the marker write may each fail.
ScanMimeTypes ==
  {"application/pdf", "image/webp", "text/plain", "application/vnd.google-apps.document"}

InitScan ==
  /\ \E mime \in ScanMimeTypes, url \in BOOLEAN :
       docs = [InitDocs(InboxId) EXCEPT !["f1"].mimeType = mime, !["f1"].downloadUrl = url]
  /\ folders = <<>>
  /\ msgs = <<>>
  /\ runs = [r \in 1..MaxRuns |-> IdleRun]
  /\ inters = [p \in Slots |-> NoInteraction]
  /\ commits = [p \in Slots |-> NoCommit]
  /\ notify = NoNotify
  /\ settings = AllSettings
  /\ auth = NoAuth

NextScan ==
  \/ \E r \in 1..MaxRuns :
       (\A q \in 1..(r - 1) : runs[q].pc = "done") /\ ScanList(r, BOOLEAN)
  \/ \E r \in 1..MaxRuns : ScanProcess(r, ClassifierEnvs, BOOLEAN)
  \/ \E r \in 1..MaxRuns : ScanMark(r, BOOLEAN)

SpecScan == InitScan /\ [][NextScan]_vars

\* The commit handler alone, called by any client: f1 waits in the inbox with
\* its pending marker, as the scanner leaves it; up to MaxMsgs requests arrive, at
\* any time; every storage request may fail.
DoPost ==
  \/ \E j \in Slots : DoPostRead(j)
  \/ \E j \in Slots : DoPostSearch(j, BOOLEAN)
  \/ \E j \in Slots : DoPostCreate(j)
  \/ \E j \in Slots : DoPostPatch(j)
  \/ \E j \in Slots : DoPostMove(j)

InitPost ==
  /\ docs = [InitDocs(ElsewhereId) EXCEPT
              !["f1"].description =
                PendingMarker(FinalName(InitDocs(ElsewhereId)["f1"], <<"denki-seikyusho">>))]
  /\ folders = <<>>
  /\ msgs = <<>>
  /\ runs = [r \in 1..MaxRuns |-> IdleRun]
  /\ inters = [p \in Slots |-> NoInteraction]
  /\ commits = [p \in Slots |-> NoCommit]
  /\ notify = NoNotify
  /\ settings = AllSettings
  /\ auth = NoAuth

NextPost ==
  \/ \E p \in MsgSlots, request \in PostRequests : Post(p, request)
  \/ DoPost

SpecPost == InitPost /\ [][NextPost]_vars

\* The commit handler called with folder names of any text: complete requests
\* for f1 whose folder name is a category, or holds a double or a single quote.
QuotedFolderNames == {CatInvoice, <<"a", "\"", "b">>, <<"a", "'", "b">>, <<"\"", "'">>}

FolderRequests ==
  [fileId : {<<"f1">>}, folderName : QuotedFolderNames,
   newFileName : {<<"x", ".", "pdf">>}, secret : {Null}]

NextFolder ==
  \/ \E p \in MsgSlots, request \in FolderRequests : Post(p, request)
  \/ DoPost

SpecFolder == InitPost /\ [][NextFolder]_vars

\* an invocation of doPost, once started, goes on: each storage request answers
\* or throws within UrlFetchApp's time limit and the script takes its next step
FairSpecPost ==
  /\ SpecPost
  /\ \A j \in Slots :
       /\ WF_vars(DoPostRead(j))
       /\ WF_vars(DoPostSearch(j, BOOLEAN))
       /\ WF_vars(DoPostCreate(j))
       /\ WF_vars(DoPostPatch(j))
       /\ WF_vars(DoPostMove(j))

\* The scanner over names and dates: f1 is a PDF whose title has one extension,
\* none, two, or ends with a dot, created on a day with one- or two-digit month
\* and day; the requests may fail as in SpecScan.
ScanTitles ==
  {<<"scan0001", ".", "pdf">>, <<"receipt">>, <<"a", ".", "tar", ".", "gz">>, <<"x", ".">>}

ScanDates == {[y |-> 2024, m |-> 3, d |-> 1], [y |-> 1999, m |-> 11, d |-> 30]}

InitName ==
  /\ \E title \in ScanTitles, date \in ScanDates :
       docs = [InitDocs(InboxId) EXCEPT !["f1"].title = title, !["f1"].createdDate = date]
  /\ folders = <<>>
  /\ msgs = <<>>
  /\ runs = [r \in 1..MaxRuns |-> IdleRun]
  /\ inters = [p \in Slots |-> NoInteraction]
  /\ commits = [p \in Slots |-> NoCommit]
  /\ notify = NoNotify
  /\ settings = AllSettings
  /\ auth = NoAuth

SpecName == InitName /\ [][NextScan]_vars

\* The scanner and the commit handler of a deployment in which one of the
\* required script properties may be missing: scanner runs over the two files
\* of the inbox, and one complete commit request sent to doPost; the classifier
\* answers as in the workflow, the list request and the notification succeed,
\* the marker write and the storage requests of doPost may fail.
InitConfig ==
  /\ docs = InitDocs(InboxId)
  /\ folders = <<>>
  /\ msgs = <<>>
  /\ runs = [r \in 1..MaxRuns |-> IdleRun]
  /\ inters = [p \in Slots |-> NoInteraction]
  /\ commits = [p \in Slots |-> NoCommit]
  /\ notify = NoNotify
  /\ settings \in {AllSettings} \cup {AllSettings \ {missing} :
                                        missing \in ScannerSettings \cup HandlerSettings}
  /\ auth = NoAuth

CompleteRequests ==
  {request \in PostRequests : /\ request.fileId = <<"f1">>
                              /\ request.folderName = CatInvoice
                              /\ request.newFileName # Null
                              /\ request.secret = Null}

NextConfig ==
  \/ \E r \in 1..MaxRuns :
       (\A q \in 1..(r - 1) : runs[q].pc = "done") /\ ScanList(r, {TRUE})
  \/ \E r \in 1..MaxRuns : ScanProcess(r, WorkflowEnvs, {TRUE})
  \/ \E r \in 1..MaxRuns : ScanMark(r, BOOLEAN)
  \/ \E request \in CompleteRequests : Post(1, request)
  \/ DoPost

SpecConfig == InitConfig /\ [][NextConfig]_vars

\* The scanner over a full inbox: 22 PDFs, of which the first few of the list
\* already carry a marker; the classifier classifies every file, the
\* notification is refused (no message is posted), the marker writes succeed.
ManyDocIds ==
  DocIds \cup {"g01", "g02", "g03", "g04", "g05", "g06", "g07", "g08", "g09", "g10",
               "g11", "g12", "g13", "g14", "g15", "g16", "g17", "g18", "g19", "g20"}

MarkedAtStart == {0, 4, 12, 15, 22}

InitLimit ==
  /\ \E k \in MarkedAtStart :
       LET order == SeqOfSet(ManyDocIds)
           marked == {order[i] : i \in 1..k}
       IN docs = [f \in ManyDocIds |->
                   [InitDocs(InboxId)["f1"] EXCEPT
                      !.description = IF f \in marked THEN ManualReviewMarker ELSE <<>>]]
  /\ folders = <<>>
  /\ msgs = <<>>
  /\ runs = [r \in 1..MaxRuns |-> IdleRun]
  /\ inters = [p \in Slots |-> NoInteraction]
  /\ commits = [p \in Slots |-> NoCommit]
  /\ notify = NoNotify
  /\ settings = AllSettings
  /\ auth = NoAuth

LimitEnvs == {env \in WorkflowEnvs : env.output.category = CatInvoice}

NextLimit ==
  \/ \E r \in 1..MaxRuns :
       (\A q \in 1..(r - 1) : runs[q].pc = "done") /\ ScanList(r, BOOLEAN)
  \/ \E r \in 1..MaxRuns : ScanProcess(r, LimitEnvs, {FALSE})
  \/ \E r \in 1..MaxRuns : ScanMark(r, {TRUE})

SpecLimit == InitLimit /\ [][NextLimit]_vars

\* a run, once started, goes on: each request of the script returns (UrlFetchApp
\* answers or throws within its time limit) and the script takes its next step
FairSpecLimit ==
  /\ SpecLimit
  /\ \A r \in 1..MaxRuns :
       /\ WF_vars(ScanProcess(r, LimitEnvs, {FALSE}))
       /\ WF_vars(ScanMark(r, {TRUE}))

\* The scanner over an inbox whose list page is taken up by marked files: of 22
\* PDFs the first 18 to 20 of the list carry a marker (all the manual-review
\* marker or all a pending marker) and the last two, new or empty, lie beyond
\* the page; every request of every run succeeds.
MarkedAhead == {18, 19, 20}

InitStarve ==
  /\ \E k \in MarkedAhead, marker \in {ManualReviewMarker, PendingMarker(<<"x", ".", "pdf">>)},
        size21 \in {0, 1}, size22 \in {0, 1} :
       LET order == SeqOfSet(ManyDocIds)
       IN docs = [f \in ManyDocIds |->
                   [InitDocs(InboxId)["f1"] EXCEPT
                      !.description = IF \E i \in 1..k : order[i] = f THEN marker ELSE <<>>,
                      !.fileSize = IF f = order[21] THEN size21
                                   ELSE IF f = order[22] THEN size22 ELSE 1]]
  /\ folders = <<>>
  /\ msgs = <<>>
  /\ runs = [r \in 1..MaxRuns |-> IdleRun]
  /\ inters = [p \in Slots |-> NoInteraction]
  /\ commits = [p \in Slots |-> NoCommit]
  /\ notify = NoNotify
  /\ settings = AllSettings
  /\ auth = NoAuth

NextStarve ==
  \/ \E r \in 1..MaxRuns :
       (\A q \in 1..(r - 1) : runs[q].pc = "done") /\ ScanList(r, {TRUE})
  \/ \E r \in 1..MaxRuns : ScanProcess(r, WorkflowEnvs, {TRUE})
  \/ \E r \in 1..MaxRuns : ScanMark(r, {TRUE})

SpecStarve == InitStarve /\ [][NextStarve]_vars

\* getGcpAuthToken alone: calls start at any time, also while others are under
\* way; the service-account key is set or not; the exchange may fail; tokens may
\* be rejected by the APIs.
InitToken ==
  /\ docs = InitDocs(InboxId)
  /\ folders = <<>>
  /\ msgs = <<>>
  /\ runs = [r \in 1..MaxRuns |-> IdleRun]
  /\ inters = [p \in Slots |-> NoInteraction]
  /\ commits = [p \in Slots |-> NoCommit]
  /\ notify = NoNotify
  /\ settings \in {AllSettings, AllSettings \ {"GCP_SERVICE_ACCOUNT_KEY"}}
  /\ auth = NoAuth

NextToken ==
  \/ \E c \in 1..MaxTokenCalls : TokenStart(c)
  \/ \E c \in 1..MaxTokenCalls : TokenExchange(c)
  \/ \E c \in 1..MaxTokenCalls : TokenRejected(c)
  \/ TokenKeyChanged
  \/ TokenTick

SpecToken == InitToken /\ [][NextToken]_vars

\* POST /notify alone, called by any client.
NextNotify ==
  \E configured \in {Null, <<"key">>}, apiKey \in NotifyKeys, body \in NotifyBodies,
     discordOk \in BOOLEAN : Notify(configured, apiKey, body, discordOk)

SpecNotify == Init /\ [][NextNotify]_vars

\* The relay's DS_APPROVE branch in front of any web app at GAS_WEBAPP_URL: one
\* scanner run, clicks on Approve, the commit, and an answer whose body is
\* the empty string, a text, an array or an object, at or past the preview limit.
EndpointResponses ==
  {[status |-> st, kind |-> "text", body |-> <<>>, length |-> 0] : st \in {200, 500}}
  \cup {[status |-> st, kind |-> "text", body |-> b, length |-> n] :
          st \in {200, 500}, b \in {ErrorPage, <<"Success">>}, n \in BodyLengths}
  \cup {[status |-> 200, kind |-> "array", body |-> <<"error", "...">>, length |-> n] :
          n \in BodyLengths}
  \cup {[status |-> 200, kind |-> "json", body |-> JsonBody("error-404"), length |-> n] :
          n \in BodyLengths}

NextPreview ==
  \/ ScanList(1, {TRUE})
  \/ ScanProcess(1, WorkflowEnvs, {TRUE})
  \/ ScanMark(1, {TRUE})
  \/ \E m \in MsgSlots : RelayComponent(m, "DS_APPROVE")
  \/ \E i \in Slots : RelayPostCommit(i)
  \/ \E i \in Slots : RelayFinishFrom(i, EndpointResponses)
  \/ DoPost

SpecPreview == Init /\ [][NextPreview]_vars

\* ---------------------------------------------------------------- claims
\* text id occurs in text s
Carries(s, id) ==
  /\ id # <<>>
  /\ \E i \in 1..Len(s) : i + Len(id) - 1 <= Len(s) /\ SubSeq(s, i, i + Len(id) - 1) = id

\* the file ids of the commit requests interaction p has sent so far
Requested(p) ==
  (IF inters[p].posts > 0 THEN {inters[p].request.fileId} ELSE {})
  \cup (IF commits[p].pc # "none" THEN {commits[p].req.fileId} ELSE {})

\* the file a message is about, and the messages that report a classification
MsgFile(m) == FileOf(MatchFileId(msgs[m].footer))
IsApprovalMsg(m) == m \in 1..Len(msgs) /\ msgs[m].title = <<"New File Ready for Approval">>

\* the name a pending marker carries
MarkerName(description) == SubSeq(description, 3, Len(description))

\* C1.  A commit request for a file id is sent only by an interaction that is a
\* DS_APPROVE click on a message whose footer carries that id, or an 'approve'
\* command that names that id; a step of the scanner and a DS_REJECT click
\* send no commit request and leave every title and parent set as they were.
C1_Origin ==
  \A p \in Slots : \A id \in Requested(p) :
    \/ /\ inters[p].kind = "DS_APPROVE"
       /\ p \in 1..Len(msgs)
       /\ Carries(msgs[p].footer, id)
    \/ /\ inters[p].kind = "approve"
       /\ id = inters[p].options.fileid

C1_Frame ==
  (\/ runs' # runs
   \/ \E p \in Slots : inters[p].kind = "none" /\ inters'[p].kind = "DS_REJECT")
  => /\ \A f \in DocIds : /\ docs'[f].title = docs[f].title
                          /\ docs'[f].parents = docs[f].parents
     /\ commits' = commits
     /\ \A p \in Slots : inters'[p].posts = inters[p].posts

C1_CommitOnlyOnApproval == []C1_Origin /\ [][C1_Frame]_vars

\* a click on DS_APPROVE and an 'approve' command have each sent their commit
\* request, and a DS_REJECT click has been handled
C1_Witness ==
  /\ \E p \in MsgSlots : inters[p].kind = "DS_APPROVE" /\ commits[p].pc # "none"
  /\ \E p \in CommandSlots : inters[p].kind = "approve" /\ commits[p].pc # "none"
  /\ \E p \in MsgSlots : inters[p].kind = "DS_REJECT"

\* C2.  For a file processFile classifies, one name goes all the way: the name
\* in the pending marker is the newFileName of the notification request and of
\* the message posted for the file; the commit request a DS_APPROVE click on
\* that message sends carries the message's name; and the title doPost's patch
\* sets is that name.
C2_Chain ==
  /\ \A r \in 1..MaxRuns :
       runs[r].pc = "mark" /\ IsPending(runs[r].plan.marker) =>
         /\ runs[r].plan.req.newFileName = MarkerName(runs[r].plan.marker)
         /\ msgs # <<>>
         /\ msgs[Len(msgs)].newFileName = MarkerName(runs[r].plan.marker)
         /\ MatchFileId(msgs[Len(msgs)].footer) = runs[r].items[runs[r].idx].id
  /\ \A f \in DocIds :
       IsPending(docs[f].description) =>
         \E m \in 1..Len(msgs) : /\ IsApprovalMsg(m)
                                 /\ MsgFile(m) = f
                                 /\ msgs[m].newFileName = MarkerName(docs[f].description)
  /\ \A m \in MsgSlots :
       IsApprovalMsg(m) /\ inters[m].kind = "DS_APPROVE" =>
         /\ inters[m].posts > 0 => inters[m].request.newFileName = msgs[m].newFileName
         /\ commits[m].pc # "none" => commits[m].req.newFileName = msgs[m].newFileName

C2_Patch ==
  \A m \in MsgSlots :
    IsApprovalMsg(m) /\ ~commits[m].patched /\ commits'[m].patched =>
      docs'[commits[m].fileId].title = msgs[m].newFileName

C2_NameRoundTrip == []C2_Chain /\ [][C2_Patch]_vars

\* a classified file carries the title of its message after an approved commit
\* patched it, and that title is not the one it came with
C2_Witness ==
  \E m \in MsgSlots :
    /\ IsApprovalMsg(m)
    /\ commits[m].patched
    /\ docs[commits[m].fileId].title = msgs[m].newFileName
    /\ docs[commits[m].fileId].title # InitDocs(InboxId)[commits[m].fileId].title

\* C3 as the specification states it.  When a DS_APPROVE click on a message
\* carrying file id F, category C and name N led to a doPost in which every
\* storage call succeeded, doPost left F with title N, as a child of a folder
\* titled C directly under the destination root, and with none of the parents
\* the metadata read had found.
C3_Committed(p) ==
  /\ p \in 1..Len(msgs)
  /\ inters[p].kind = "DS_APPROVE"
  /\ commits[p].pc = "done"
  /\ commits[p].patched
  /\ commits[p].moved

C3_Post(p) ==
  /\ commits[p].fileId = MsgFile(p)
  /\ commits[p].after.title = msgs[p].newFileName
  /\ \E k \in FoldersTitled(msgs[p].category, DestinationRootId) :
       folders[k].id \in commits[p].after.parents
  /\ commits[p].after.parents \cap commits[p].before.parents = {}

C3_ApprovedCommitRelocates == \A p \in MsgSlots : C3_Committed(p) => C3_Post(p)

\* C3, amended.  The same, for a doPost that did not find F already in the
\* folder it resolved for C and that no other doPost for F overlapped.
C3_Alone(p) ==
  /\ commits[p].target \notin commits[p].before.parents
  /\ ~commits[p].overlapped

C3_ApprovedCommitRelocatesAlone ==
  \A p \in MsgSlots : C3_Committed(p) /\ C3_Alone(p) => C3_Post(p)

\* such a doPost has finished, and it created the folder
C3_Witness ==
  \E p \in MsgSlots :
    C3_Committed(p) /\ C3_Alone(p) /\ commits[p].created /\ C3_Post(p)

\* C4.  The scanner changes a description only from empty to a Skipped, pending
\* or manual-review marker; a doPost that replaced a marker replaced a pending
\* marker and moved the file out of the inbox.
C4_Scan ==
  \A f \in DocIds :
    runs' # runs /\ docs'[f].description # docs[f].description =>
      /\ docs[f].description = <<>>
      /\ \/ IsSkipped(docs'[f].description)
         \/ IsPending(docs'[f].description)
         \/ docs'[f].description = ManualReviewMarker

C4_Commit ==
  \A p \in Slots :
    commits[p].pc = "done" /\ commits[p].patched /\ commits[p].cleared # <<>> =>
      /\ IsPending(commits[p].cleared)
      /\ commits[p].moved
      /\ InboxId \notin commits[p].after.parents

C4_MarkerTransitions == []C4_Commit /\ [][C4_Scan]_vars

\* C5.  A doPost that ended without a successful move replaced no marker, and
\* a file it found with a pending marker it left with a pending marker.
C5_FailedCommitKeepsMarker ==
  \A p \in Slots :
    commits[p].pc = "done" /\ ~commits[p].moved /\ commits[p].fileId # "none" =>
      /\ commits[p].patched => commits[p].cleared = <<>>
      /\ IsPending(commits[p].before.description) =>
           IsPending(commits[p].after.description)

\* C6.  After a DS_APPROVE click whose doPost moved the file, the relay does
\* not edit the message to a failure state, and edits it to the success state
\* when the platform accepts the edit.
C6_SuccessEdit ==
  \A p \in MsgSlots :
    inters[p].kind = "DS_APPROVE" /\ inters[p].pc = "done" /\ commits[p].moved =>
      /\ inters[p].edit # "failure"
      /\ inters[p].editsAccepted => inters[p].edit = "success" /\ msgs[p].content = "success"

\* C7.  An interaction whose commit request failed (the call threw, the status
\* was not 2xx, or the body had no "Success") ends, when the platform accepts
\* edits, with an edit of its message to a failure state.
C7_FailureEdit ==
  \A p \in Slots :
    (/\ inters[p].pc = "done"
     /\ inters[p].posts > 0
     /\ ~inters[p].commitOk
     /\ inters[p].editsAccepted)
    => inters[p].edit = "failure"

\* C8.  A DS_APPROVE click on a message whose footer yields a file id is
\* answered with UPDATE_MESSAGE and no components; that answer has been sent
\* when the commit request is issued; the interaction issues at most one.
C8_Ack ==
  \A p \in MsgSlots :
    inters[p].kind = "DS_APPROVE" =>
      /\ inters[p].posts <= 1
      /\ Truthy(MatchFileId(msgs[p].footer)) =>
           /\ inters[p].response = [type |-> 7, components |-> "removed"]
           /\ msgs[p].components = <<>>

C8_Order ==
  \A p \in MsgSlots :
    inters[p].kind = "DS_APPROVE" /\ inters'[p].posts > inters[p].posts =>
      /\ inters[p].response = [type |-> 7, components |-> "removed"]
      /\ msgs[p].components = <<>>

C8_AckBeforeCommit == []C8_Ack /\ [][C8_Order]_vars

\* a DS_APPROVE click has been answered and its one commit request issued
C8_Witness ==
  \E p \in MsgSlots :
    inters[p].kind = "DS_APPROVE" /\ inters[p].posts = 1 /\ commits[p].pc # "none"

\* C9.  The step that handles a DS_REJECT click changes no file, no folder and
\* no commit, sends no commit request, and changes the message it came from
\* only: new content, no buttons.  The interaction never sends a commit request.
C9_Step ==
  \A p \in MsgSlots :
    inters[p].kind = "none" /\ inters'[p].kind = "DS_REJECT" =>
      /\ docs' = docs /\ folders' = folders /\ commits' = commits
      /\ inters'[p].pc = "done"
      /\ msgs'[p].components = <<>>
      /\ msgs'[p].content = "rejected"
      /\ \A m \in 1..Len(msgs) : m # p => msgs'[m] = msgs[m]

C9_Never ==
  \A p \in MsgSlots :
    inters[p].kind = "DS_REJECT" =>
      inters[p].posts = 0 /\ inters[p].pc = "done" /\ commits[p].pc = "none"

C9_RejectChangesNothing == []C9_Never /\ [][C9_Step]_vars

\* a DS_REJECT click has been handled and the file it was about has its pending marker
C9_Witness ==
  \E p \in MsgSlots :
    /\ inters[p].kind = "DS_REJECT"
    /\ IsPending(docs[MsgFile(p)].description)
    /\ msgs[p].components = <<>>

\* C10.  A run that lists the inbox when every file in it carries a marker
\* ends at once: it calls the classifier for no file, sends no notification
\* and writes no marker.
C10_SettledRunDoesNothing ==
  \A r \in 1..MaxRuns :
    runs[r].pc # "idle" /\ runs[r].settled =>
      /\ runs[r].pc = "done"
      /\ runs[r].classified = 0
      /\ runs[r].notified = 0
      /\ runs[r].wrote = 0

\* two runs in succession have each met such an inbox, one holding a pending
\* and a manual-review marker
C10_Witness ==
  \E r \in 1..(MaxRuns - 1) :
    /\ runs[r].pc = "done" /\ runs[r].settled
    /\ runs[r + 1].pc = "done" /\ runs[r + 1].settled
    /\ \E f \in DocIds : InboxId \in docs[f].parents /\ IsPending(docs[f].description)
    /\ \E f \in DocIds : InboxId \in docs[f].parents /\ docs[f].description = ManualReviewMarker

\* the file the loop of run r is at
RunFile(r) == runs[r].items[runs[r].idx].id[1]

\* the step in which run r classifies the file it is at and sends the notification
Processes(r) == runs[r].pc = "process" /\ runs'[r].pc = "mark"

\* the step in which run r goes on from the file it is at, after the marker write
Marks(r) == runs[r].pc = "mark" /\ runs'[r].pc # "mark"

\* the types the model is asked about: PDF, PNG, JPEG, GIF, BMP, WEBP
ListedMimeTypes ==
  {"application/pdf", "image/png", "image/jpeg", "image/gif", "image/bmp", "image/webp"}

\* C11.  Processing a file whose mime type is none of PDF, PNG, JPEG, GIF, BMP,
\* WEBP sends no request to the model, whatever the requests would have answered.
C11_Step ==
  \A r \in 1..MaxRuns :
    Processes(r) /\ docs[RunFile(r)].mimeType \notin ListedMimeTypes =>
      runs'[r].modelCalls = runs[r].modelCalls

C11_UnsupportedTypeNeverReachesModel == [][C11_Step]_vars

\* a run has processed a file of another type (and its metadata read answered
\* 200) without a request to the model, and a PDF with one
C11_Witness ==
  \E r \in 1..MaxRuns :
    /\ runs[r].pc = "mark"
    /\ docs[RunFile(r)].mimeType \notin ListedMimeTypes
    /\ runs[r].env.meta = 200
    /\ runs[r].modelCalls = 0
    /\ \E q \in 1..MaxRuns : runs[q].modelCalls > 0

\* C12.  The marker processFile writes for a file whose mime type is not one
\* of the six is a Skipped marker with a reason, neither the manual-review
\* marker nor a pending marker.
C12_UnsupportedTypeIsSkipped ==
  \A r \in 1..MaxRuns :
    (/\ runs[r].pc = "mark"
     /\ docs[RunFile(r)].mimeType \notin ListedMimeTypes
     /\ runs[r].env.meta = 200)
    => /\ IsSkipped(runs[r].plan.marker)
       /\ Len(runs[r].plan.marker) > 2
       /\ runs[r].plan.marker # ManualReviewMarker
       /\ ~IsPending(runs[r].plan.marker)

\* the model answered 200 with an output for the file run r is at
ModelAnswered(r) ==
  /\ runs[r].env.meta = 200
  /\ runs[r].env.kind = "ok"
  /\ docs[RunFile(r)].mimeType \in ListedMimeTypes
  /\ docs[RunFile(r)].downloadUrl

\* an output whose category is not in the list of ten, or whose fileName is
\* missing, empty or not a string
BadOutput(o) ==
  \/ o.category \notin Categories
  \/ o.fileName \in {Null, <<>>, NotAString}

\* C13.  When the model's output has a category outside the list of ten, or a
\* fileName that is missing, empty or not a string, the marker processFile
\* goes on to write is DS_PROCESSED_MANUAL_REVIEW, and the step that writes it
\* leaves the description as it was or as that marker, never a pending marker.
C13_Plan ==
  /\ Cardinality(Categories) = 10
  /\ \A r \in 1..MaxRuns :
       runs[r].pc = "mark" /\ ModelAnswered(r) /\ BadOutput(runs[r].env.output) =>
         runs[r].plan.marker = ManualReviewMarker

C13_Step ==
  \A r \in 1..MaxRuns :
    Marks(r) /\ ModelAnswered(r) /\ BadOutput(runs[r].env.output) =>
      /\ runs'[r].wrote = runs[r].wrote + 1
      /\ docs'[RunFile(r)].description \in {docs[RunFile(r)].description, ManualReviewMarker}
      /\ ~IsPending(docs'[RunFile(r)].description)

C13_BadOutputIsManualReview == []C13_Plan /\ [][C13_Step]_vars

\* processFile has a manual-review marker to write for a file for which the
\* model named a category outside the list
C13_Witness ==
  \E r \in 1..MaxRuns :
    /\ runs[r].pc = "mark"
    /\ ModelAnswered(r)
    /\ runs[r].modelCalls > 0
    /\ runs[r].env.output.category \notin Categories
    /\ runs[r].plan.marker = ManualReviewMarker

\* the classifier's requests for the file run r is at failed: the metadata
\* read or the model call answered a status other than 200, or a request or
\* the parsing of the model's answer threw
ClassifierFailed(r) ==
  \/ runs[r].env.meta \notin {0, 200}
  \/ /\ runs[r].env.meta = 200
     /\ docs[RunFile(r)].mimeType \in ListedMimeTypes
     /\ docs[RunFile(r)].downloadUrl
     /\ runs[r].env.kind \in {"http_error", "throw"}

\* processFile sends one notification request, which says "Manual review
\* needed", and the marker write sends none
C14_Notifies ==
  \A r \in 1..MaxRuns :
    /\ Processes(r) /\ ClassifierFailed(r)' =>
         /\ runs'[r].notified = runs[r].notified + 1
         /\ Includes(runs'[r].plan.req.description, "Manual review needed")
    /\ Marks(r) => runs'[r].notified = runs[r].notified

\* C14 as the specification states it.  When the classifier's requests fail,
\* processFile sends exactly one notification request, whose description
\* contains "Manual review needed", and leaves the file with the marker
\* DS_PROCESSED_MANUAL_REVIEW.
C14_Marks ==
  \A r \in 1..MaxRuns :
    Marks(r) /\ ClassifierFailed(r) =>
      docs'[RunFile(r)].description = ManualReviewMarker

C14_FailedClassifierIsManualReview == [][C14_Notifies /\ C14_Marks]_vars

\* C14, amended.  The same, with the marker on the file when the store accepts
\* the marker write; when it does not, the description stays as it was.  In
\* neither case is a pending marker written.
C14_MarksIfAccepted ==
  \A r \in 1..MaxRuns :
    Marks(r) /\ ClassifierFailed(r) =>
      /\ runs'[r].wrote = runs[r].wrote + 1
      /\ runs'[r].accepted > runs[r].accepted =>
           docs'[RunFile(r)].description = ManualReviewMarker
      /\ runs'[r].accepted = runs[r].accepted =>
           docs'[RunFile(r)].description = docs[RunFile(r)].description

C14_FailedClassifierIsManualReviewIfAccepted ==
  [][C14_Notifies /\ C14_MarksIfAccepted]_vars

\* the model call for a PDF or image threw; processFile has sent its one
\* notification and has the manual-review marker to write
C14_Witness ==
  \E r \in 1..MaxRuns :
    /\ runs[r].pc = "mark"
    /\ ClassifierFailed(r)
    /\ runs[r].env.kind = "throw"
    /\ runs[r].notified = 1
    /\ Includes(runs[r].plan.req.description, "Manual review needed")
    /\ runs[r].plan.marker = ManualReviewMarker

\* ---- C15
NotifyUnauthorized ==
  ~Truthy(notify.configured) \/ notify.apiKey = Null \/ notify.apiKey # notify.configured

NotifyIncomplete == ~Truthy(notify.body.fileId) \/ ~Truthy(notify.body.category)

NotifyRefused(status) == notify.status = status /\ notify.posted = 0

NotifyPosted ==
  notify.status = 200 /\ notify.posted = 1 /\ notify.keys = {"success", "messageId"}

\* C15 as stated: POST /notify answers 401 and posts nothing when the key header
\* is absent, differs from the configured key or no key is configured; otherwise
\* 400 and nothing posted when fileId or category is missing; otherwise exactly
\* one message is posted and the answer is 200 with success and the message id.
C15_NotifyAnswers ==
  notify.status # 0 =>
    IF NotifyUnauthorized THEN NotifyRefused(401)
    ELSE IF NotifyIncomplete THEN NotifyRefused(400)
    ELSE NotifyPosted

\* C15, amended: the same, except that the last case posts one message and
\* answers 200 only if the chat platform accepts the message; if it does not,
\* POST /notify answers 500 and no message is posted.
C15_NotifyAnswersIfAccepted ==
  notify.status # 0 =>
    IF NotifyUnauthorized THEN NotifyRefused(401)
    ELSE IF NotifyIncomplete THEN NotifyRefused(400)
    ELSE IF notify.discordOk THEN NotifyPosted
    ELSE NotifyRefused(500)

C15_Witness ==
  /\ notify.configured = <<"key">> /\ notify.apiKey = <<"key">>
  /\ notify.body.fileId = <<"f1">> /\ notify.body.category = CatInvoice
  /\ notify.discordOk /\ NotifyPosted /\ Len(msgs) = 2

\* ---- C16
\* a commit request in which one of the three fields is missing or empty
InvalidRequest(req) ==
  ~Truthy(req.fileId) \/ ~Truthy(req.folderName) \/ ~Truthy(req.newFileName)

\* C16: a commit request in which fileId, folderName or newFileName is missing
\* or empty is rejected as an invalid request (the caller is answered with the
\* invalid-request error), and no storage call is made for it: no metadata
\* read, no folder search or creation, no rename, no move.
C16_InvalidRequestIsRejected ==
  \A j \in Slots :
    commits[j].pc = "done" /\ InvalidRequest(commits[j].req) =>
      /\ commits[j].calls = {}
      /\ \A response \in WebAppResponses(commits[j].returned) :
           response.kind = "json" /\ Includes(response.body, "Invalid request")

\* the part of C16 that the handler keeps: no storage call for an invalid request
C16_InvalidRequestMakesNoCall ==
  \A j \in Slots :
    commits[j].pc # "none" /\ InvalidRequest(commits[j].req) =>
      /\ commits[j].calls = {}
      /\ commits[j].pc = "done" => commits[j].returned = "error-400"

\* ---- C17
\* a response that tells the caller the commit succeeded
ReportsSuccess(response) == response.kind = "json" /\ Includes(response.body, "success")

C18_Step ==
  \A j \in Slots :
    commits[j].pc = "patch" /\ commits'[j].pc # "patch" /\ ~commits'[j].patched =>
      commits'[j].pc = "move" /\ commits'[j].returned = "none"

C18_Result ==
  \A j \in Slots :
    commits[j].pc = "done" /\ "patch" \in commits[j].calls =>
      /\ "move" \in commits[j].calls
      /\ commits[j].returned = IF commits[j].moved THEN "success" ELSE "error-500"

\* C18: when the rename request of doPost returns a non-success status the move
\* request is still issued, and the result doPost builds is decided by the
\* outcome of the move alone: success if the move succeeded, an error if not,
\* the same as after an accepted rename.
C18_FailedRenameStillMoves == []C18_Result /\ [][C18_Step]_vars

C18_Witness ==
  \E j \in Slots :
    /\ commits[j].pc = "done" /\ "patch" \in commits[j].calls /\ ~commits[j].patched
    /\ commits[j].moved /\ commits[j].returned = "success"
    /\ docs[commits[j].fileId].title # commits[j].req.newFileName

\* ---- C19
\* C19: the commit handler is invoked over a channel authenticated by a shared
\* secret: a commit request that does not carry the shared secret causes no
\* rename, no folder creation and no move.
C19_NoSecretNoChange ==
  \A j \in Slots :
    commits[j].pc # "none" /\ commits[j].req.secret = Null =>
      /\ commits[j].calls \cap {"create", "patch", "move"} = {}
      /\ ~commits[j].created /\ ~commits[j].patched /\ ~commits[j].moved

\* ---- C20
\* the folder name a commit's getOrCreateFolder call looks for
FolderNameOf(j) == CleanFolderName(commits[j].req.folderName)

\* commit j called getOrCreateFolder when no folder of its name existed, and
\* the call has ended
MissingFolderCallEnded(j) ==
  /\ commits[j].missing
  /\ "search" \in commits[j].calls
  /\ commits[j].pc \notin {"search", "create"}

\* every request of j's getOrCreateFolder call was accepted by the store
FolderRequestsAccepted(j) ==
  /\ commits[j].returned # "exception"
  /\ "create" \in commits[j].calls => commits[j].created

RacingFolderCalls ==
  {jk \in Slots \X Slots :
     /\ jk[1] # jk[2]
     /\ MissingFolderCallEnded(jk[1]) /\ MissingFolderCallEnded(jk[2])
     /\ FolderNameOf(jk[1]) = FolderNameOf(jk[2])}

CallsInLifetime ==
  {c \in 1..MaxTokenCalls :
     auth.calls[c].pc # "idle" /\ auth.calls[c].start - auth.calls[1].start < CacheSeconds}

RECURSIVE Exchanged(_)
Exchanged(cs) ==
  IF cs = {} THEN 0
  ELSE LET c == CHOOSE x \in cs : TRUE IN auth.calls[c].exchanged + Exchanged(cs \ {c})

\* C21: across any concurrent or successive calls of getGcpAuthToken made
\* within the 3300-second cache lifetime that starts with the first call, at
\* most one token exchange is performed and every call returns the same token
\* (stated for behaviours in which the key is set and every exchange succeeds).
C21_OneExchangePerLifetime ==
  auth.exchanges = auth.issued =>
    /\ Exchanged(CallsInLifetime) <= 1
    /\ \A c, d \in CallsInLifetime :
         auth.calls[c].pc = "done" /\ auth.calls[d].pc = "done" =>
           auth.calls[c].token = auth.calls[d].token

\* ---- C22
\* a step in which call c fails: it has made at most one exchange request, it
\* returns no token, and the cache entry is what it was
C22_Fails ==
  \A c \in 1..MaxTokenCalls :
    auth.calls[c].pc # "failed" /\ auth'.calls[c].pc = "failed" =>
      /\ auth'.cache = auth.cache /\ auth'.cachedAt = auth.cachedAt
      /\ auth'.calls[c].exchanged <= 1
      /\ auth'.calls[c].token = 0
      /\ \/ "GCP_SERVICE_ACCOUNT_KEY" \notin settings /\ auth'.exchanges = auth.exchanges
         \/ auth'.exchanges = auth.exchanges + 1 /\ auth'.issued = auth.issued

\* a call that starts while the cache holds no live entry takes no token from
\* the cache: it goes on to the exchange, or fails at once if the key is not set
C22_Fresh ==
  \A c \in 1..MaxTokenCalls :
    auth.calls[c].pc = "idle" /\ auth'.calls[c].pc # "idle" /\ CacheGet = 0 =>
      /\ ~auth'.calls[c].hit
      /\ auth'.calls[c].pc =
           IF "GCP_SERVICE_ACCOUNT_KEY" \in settings THEN "exchange" ELSE "failed"

\* C22: when the service-account key is missing, the exchange endpoint answers
\* non-2xx or the response has no access_token, getGcpAuthToken fails for that
\* call, performs no retry and writes nothing to the token cache, so the next
\* call attempts a fresh exchange.
C22_FailureCachesNothing == [][C22_Fails /\ C22_Fresh]_vars

C22_Witness ==
  /\ auth.calls[1].pc = "failed" /\ auth.calls[1].exchanged = 1
  /\ auth.calls[2].pc = "done" /\ auth.calls[2].exchanged = 1 /\ ~auth.calls[2].hit
  /\ auth.calls[2].start >= auth.calls[1].start + TickSeconds
  /\ auth.exchanges = 2

\* ---- C23
\* C23: after a caller observes an authentication failure (401) on a request
\* made with the cached token, the cached token is discarded, and the next
\* getGcpAuthToken call performs a new exchange instead of returning the
\* rejected token.
C23_RejectedTokenIsDiscarded ==
  /\ \A c \in 1..MaxTokenCalls : ~auth.calls[c].stale
  /\ CacheGet # 0 => CacheGet \notin auth.rejected

\* ---- C24
\* C24: within one checkNewFilesAndNotify run, a failure local to one document
\* (classifier failure, notification request rejected or throwing, marker
\* write rejected or throwing) never prevents the following eligible documents
\* of the listed page from being processed in that run: a run that has ended
\* has classified, notified and marked every eligible file of its page, up
\* to the processing limit.
C24_FailuresDoNotStopTheRun ==
  \A r \in 1..MaxRuns :
    runs[r].pc = "done" =>
      /\ runs[r].fileCount = Min({runs[r].eligible, ProcessLimit})
      /\ runs[r].classified = runs[r].fileCount
      /\ runs[r].notified = runs[r].fileCount
      /\ runs[r].wrote = runs[r].fileCount

\* the first run met every failure on both files and still processed both
C24_Witness ==
  /\ runs[1].pc = "done" /\ runs[1].eligible = 2 /\ runs[1].fileCount = 2
  /\ runs[1].classified = 2 /\ runs[1].modelCalls = 0
  /\ runs[1].notified = 2 /\ msgs = <<>>
  /\ runs[1].wrote = 2 /\ runs[1].accepted = 0

\* ---- C25
DigitValue(ch) == CHOOSE n \in 0..9 : DigitStr[n + 1] = ch

\* s reads YYYY-MM-DD for the day d
IsDateText(s, d) ==
  /\ Len(s) = 10 /\ s[5] = "-" /\ s[8] = "-"
  /\ \A i \in {1, 2, 3, 4, 6, 7, 9, 10} : \E n \in 0..9 : DigitStr[n + 1] = s[i]
  /\ 1000 * DigitValue(s[1]) + 100 * DigitValue(s[2]) + 10 * DigitValue(s[3])
       + DigitValue(s[4]) = d.y
  /\ 10 * DigitValue(s[6]) + DigitValue(s[7]) = d.m
  /\ 10 * DigitValue(s[9]) + DigitValue(s[10]) = d.d

\* e is the extension of title: nothing if title has no dot, otherwise the dot
\* that is the last one of title and the text after it
IsExtensionOf(e, title) ==
  IF \A i \in 1..Len(title) : title[i] # "."
  THEN e = <<>>
  ELSE /\ e # <<>> /\ Head(e) = "."
       /\ \A i \in 2..Len(e) : e[i] # "."
       /\ Len(e) <= Len(title)
       /\ SubSeq(title, Len(title) - Len(e) + 1, Len(title)) = e

\* C25: for every successfully classified document the final name computed by
\* processFile is the creation date as YYYY-MM-DD, then "_", then the suggested
\* name, then the original extension if the original name has one ("." plus the
\* text after the last dot) and nothing otherwise.
C25_FinalNameFormat ==
  \A r \in 1..MaxRuns :
    runs[r].pc = "mark" /\ IsPending(runs[r].plan.marker) =>
      LET file == runs[r].items[runs[r].idx]
          suggested == runs[r].env.output.fileName
          name == runs[r].plan.req.newFileName
          n == Len(suggested)
      IN /\ Len(name) >= 11 + n
         /\ IsDateText(SubSeq(name, 1, 10), file.createdDate)
         /\ name[11] = "_"
         /\ SubSeq(name, 12, 11 + n) = suggested
         /\ IsExtensionOf(SubSeq(name, 12 + n, Len(name)), file.title)
         /\ runs[r].plan.marker = PendingMarker(name)

\* a title with two dots, a two-digit month and day
C25_Witness ==
  \E r \in 1..MaxRuns :
    /\ runs[r].pc = "mark" /\ IsPending(runs[r].plan.marker)
    /\ runs[r].items[runs[r].idx].title = <<"a", ".", "tar", ".", "gz">>
    /\ runs[r].plan.req.newFileName =
         <<"1", "9", "9", "9", "-", "1", "1", "-", "3", "0", "_", "denki-seikyusho", ".", "gz">>

\* the example of the claim: a PDF created 2024-03-01
C25_Example ==
  \E r \in 1..MaxRuns :
    /\ runs[r].pc = "mark"
    /\ runs[r].plan.req.newFileName =
         <<"2", "0", "2", "4", "-", "0", "3", "-", "0", "1", "_", "denki-seikyusho", ".", "pdf">>

\* ---- C26
\* no storage request of commit j was refused
StorageCallsSucceeded(j) == commits[j].returned \in {"success", "error-400"}

\* C26: an 'approve' command naming file F and folder C receives a deferred
\* response and then produces a commit request that doPost accepts and
\* executes, so that, when the storage calls succeed, F ends up relocated into
\* the folder named C.
C26_CommandRelocates ==
  \A p \in CommandSlots :
    inters[p].kind = "approve" /\ commits[p].pc = "done" /\ StorageCallsSucceeded(p) =>
      /\ inters[p].response.type = 5
      /\ commits[p].moved
      /\ \E k \in FoldersTitled(CleanFolderName(inters[p].options.folder), DestinationRootId) :
           folders[k].id \in commits[p].after.parents

\* what the command does get: the deferred response, and a commit request that
\* doPost turns down before any storage call
C26_CommandIsTurnedDown ==
  \A p \in CommandSlots :
    inters[p].kind = "approve" =>
      /\ inters[p].response.type = 5
      /\ commits[p].pc = "done" =>
           commits[p].returned = "error-400" /\ commits[p].calls = {} /\ ~commits[p].moved

\* ---- C27
\* no file was classified, marked or notified by run r
RunDidNothing(r) ==
  /\ runs[r].classified = 0 /\ runs[r].modelCalls = 0
  /\ runs[r].notified = 0 /\ runs[r].wrote = 0

\* no folder was created and nothing was renamed or moved by commit j
CommitDidNothing(j) ==
  /\ commits[j].calls \cap {"create", "patch", "move"} = {}
  /\ ~commits[j].created /\ ~commits[j].patched /\ ~commits[j].moved

\* C27: if a required setting is missing (INBOX_FOLDER_ID, GCP_PROJECT_ID,
\* GCP_LOCATION, BOT_API_URL or GAS_API_KEY for the scanner;
\* DESTINATION_ROOT_FOLDER_ID for the commit handler), the scanner run or commit
\* request is aborted immediately: no classifier call, no marker write, no
\* notification and no rename or move happens in that run or request.
C27_MissingSettingAborts ==
  /\ ~(ScannerSettings \subseteq settings) =>
       /\ \A r \in 1..MaxRuns : RunDidNothing(r)
       /\ msgs = <<>>
       /\ \A f \in DocIds : ~HasMarker(docs[f].description)
  /\ ~(HandlerSettings \subseteq settings) =>
       \A j \in Slots : CommitDidNothing(j)

\* the settings for which C27 holds: all but BOT_API_URL and GAS_API_KEY
C27_AbortsExceptNotifySettings ==
  /\ ~(({"INBOX_FOLDER_ID", "GCP_PROJECT_ID", "GCP_LOCATION"}) \subseteq settings) =>
       /\ \A r \in 1..MaxRuns : RunDidNothing(r)
       /\ msgs = <<>>
       /\ \A f \in DocIds : ~HasMarker(docs[f].description)
  /\ ~(HandlerSettings \subseteq settings) =>
       \A j \in Slots : CommitDidNothing(j) /\ commits[j].calls = {}

\* ---- C28
\* C28: for every successfully classified document processFile attempts the
\* write of the marker DS_PENDING_RENAME::<finalName> before it emits the
\* notification request for that document: a run that has emitted the
\* notification for the file it is at has attempted that file's marker write.
C28_MarkerBeforeNotification ==
  \A r \in 1..MaxRuns :
    runs[r].pc \in {"process", "mark"} /\ IsPending(runs[r].plan.marker) =>
      runs[r].notified <= runs[r].wrote

\* what the code does instead: the notification of a classified file is emitted
\* first, and the marker write is attempted in the step that follows
C28_NotificationBeforeMarker ==
  \A r \in 1..MaxRuns :
    /\ runs[r].pc = "mark" /\ runs[r].plan # NoPlan => runs[r].notified = runs[r].wrote + 1
    /\ runs[r].pc # "mark" => runs[r].notified = runs[r].wrote

\* ---- C29
C29_Bounded ==
  \A r \in 1..MaxRuns :
    /\ Len(runs[r].items) <= 20
    /\ runs[r].eligible <= 20
    /\ runs[r].fileCount <= 10
    /\ runs[r].classified <= 10 /\ runs[r].modelCalls <= 10

C29_Terminates ==
  \A r \in 1..MaxRuns : runs[r].pc \in {"process", "mark"} ~> runs[r].pc = "done"

\* C29: every checkNewFilesAndNotify run terminates, lists at most 20
\* documents, and invokes processFile (and therefore the classifier) for at
\* most 10 documents, whatever the inbox contains.
C29_RunIsBounded == []C29_Bounded /\ C29_Terminates

\* a run over an inbox of 22 files, 20 of them listed and none marked, that
\* ended after 10 files
C29_Witness ==
  /\ Cardinality({f \in DOMAIN docs : InboxId \in docs[f].parents}) = 22
  /\ runs[1].pc = "done" /\ runs[1].eligible = 20 /\ runs[1].fileCount = 10
  /\ runs[1].classified = 10

SameDocumentCommits ==
  {jk \in Slots \X Slots :
     /\ jk[1] # jk[2]
     /\ commits[jk[1]].fileId # "none"
     /\ commits[jk[1]].fileId = commits[jk[2]].fileId}

C31_Results ==
  \A jk \in SameDocumentCommits :
    LET j == jk[1]
        k == jk[2]
    IN /\ commits[j].pc = "done" =>
            commits[j].returned \in {"success", "error-404", "error-500", "exception"}
       /\ commits[j].pc = "done" /\ commits[k].pc = "done"
            /\ (commits[j].moved \/ commits[k].moved) =>
              InboxId \notin docs[commits[j].fileId].parents

C31_Completes ==
  \A j \in Slots : commits[j].pc \notin {"none", "done"} ~> commits[j].pc = "done"

C32_TokenIsOfConfiguredIdentity ==
  \A c \in 1..MaxTokenCalls :
    auth.calls[c].pc = "done" =>
      auth.issuedFor[auth.calls[c].token] = auth.calls[c].identity

\* ---- C33
\* C33: in every failure message the relay writes after a DS_APPROVE commit, the
\* upstream error detail taken from the commit response is at most 1500
\* characters long (plus the fixed 'see logs' suffix), whatever the length or
\* type of the response body.
C33_DetailIsBounded ==
  \A p \in MsgSlots :
    inters[p].kind = "DS_APPROVE" /\ inters[p].pc = "done" /\ inters[p].detail.from = "response" =>
      inters[p].detail.length <= PreviewLimit

\* ---- C34
\* C34: for every folder name passed to getOrCreateFolder, the name used in the
\* search query and the name used in the create call are the same string and
\* contain no quote character (neither double nor single quote), so a name
\* cannot alter the structure of the search query.
C34_FolderNameIsSanitized ==
  \A j \in Slots :
    /\ commits[j].searchName # Null =>
          ~Includes(commits[j].searchName, "\"") /\ ~Includes(commits[j].searchName, "'")
    /\ commits[j].createName # Null => commits[j].createName = commits[j].searchName

\* what the code keeps: the two names are the same string, without double quotes
C34_FolderNameHasNoDoubleQuote ==
  \A j \in Slots :
    /\ commits[j].searchName # Null => ~Includes(commits[j].searchName, "\"")
    /\ commits[j].createName # Null => commits[j].createName = commits[j].searchName

\* ---- C35
\* C35: every invocation of doPost, on every path (configuration error, invalid
\* request, file not found, folder failure, move failure, success, unexpected
\* exception), returns a JSON result to the caller whose status is "success" or
\* "error"; no path lets an exception escape doPost.
C35_AlwaysReturnsJson ==
  \A j \in Slots :
    commits[j].pc = "done" =>
      \A response \in WebAppResponses(commits[j].returned) :
        /\ response.kind = "json"
        /\ Includes(response.body, "success") \/ Includes(response.body, "error")

\* ---- C36
\* C36: a document gets the marker DS_PENDING_RENAME:: only if the notification
\* request for it was accepted by the relay (HTTP 200): every document that
\* carries the pending marker has its approval message in the channel.
C36_PendingOnlyIfNotified ==
  \A f \in DOMAIN docs :
    IsPending(docs[f].description) =>
      \E m \in 1..Len(msgs) : IsApprovalMsg(m) /\ MsgFile(m) = f

\* what the code keeps: the marker write of a classified document is attempted
\* whether or not its notification was accepted
C36_MarkerWhateverTheAnswer ==
  \A r \in 1..MaxRuns :
    runs[r].pc = "done" /\ runs[r].notified > 0 => runs[r].wrote = runs[r].notified

\* ---- C37
\* C37: a commit request (rename and relocate) can only be produced for a
\* document whose marker is AwaitingApproval: for a document that the scanner
\* put into ManualReview, no sequence of notification and button actions leads
\* the relay to send a commit request for it.
C37_Step ==
  \A p \in Slots :
    inters'[p].posts > inters[p].posts =>
      LET f == FileOf(inters[p].request.fileId)
      IN f # "none" => docs[f].description # ManualReviewMarker

C37_NoCommitForManualReview == [][C37_Step]_vars

\* ---- C38
\* the non-empty Unseen documents of the inbox
UnseenInInbox ==
  {f \in DOMAIN docs : InboxId \in docs[f].parents /\ ~SkipFile(ListItem(f))}

\* C38: under repeated scanner runs in which storage, classifier and
\* notification calls succeed, every non-empty Unseen document in the inbox is
\* eventually processed, however many already-marked documents remain in the
\* inbox: a run that ends below its limit of 10 documents has left no non-empty
\* Unseen document behind (each run takes up to 10 of them, so repeated runs
\* reach every one).
C38_NoUnseenLeftBehind ==
  \A r \in 1..MaxRuns :
    runs[r].pc = "done" /\ runs[r].fileCount < ProcessLimit => UnseenInInbox = {}

\* what the code does instead: once a run has ended below its limit, the documents
\* beyond the first 20 of the list are never reached; every later run processes
\* nothing and leaves each of them as it was
C38_LaterRunsProcessNothing ==
  \A r \in 1..MaxRuns : \A q \in 1..(r - 1) :
    runs[q].pc = "done" /\ runs[q].fileCount < ProcessLimit /\ runs[r].pc # "idle" =>
      runs[r].pc = "done" /\ runs[r].fileCount = 0

\* ---- C39
\* every marker write of every run so far was accepted
MarkerWritesSucceeded == \A r \in 1..MaxRuns : runs[r].accepted = runs[r].wrote

\* C39: over any number of non-overlapping checkNewFilesAndNotify runs in which
\* every marker write succeeds, each document is classified at most once and at
\* most one notification request is sent for it: a run does not process a
\* document for which a notification is already in the channel.
C39_Step ==
  \A r \in 1..MaxRuns :
    Processes(r) /\ MarkerWritesSucceeded =>
      \A m \in 1..Len(msgs) : MsgFile(m) # RunFile(r)

C39_ProcessedAtMostOnce == [][C39_Step]_vars

\* what the code keeps: a document whose marker no commit has cleared is processed
\* at most once
C39_StepUnlessCleared ==
  \A r \in 1..MaxRuns :
    /\ Processes(r)
    /\ MarkerWritesSucceeded
    /\ \A j \in Slots : commits[j].fileId = RunFile(r) => ~commits[j].patched
    => \A m \in 1..Len(msgs) : MsgFile(m) # RunFile(r)

C39_ProcessedOnceUnlessCleared == [][C39_StepUnlessCleared]_vars

====
